---- MODULE Spec2Model ----
(***************************************************************************)
(* Ticket inventory, holds, wait-list and payment-confirmation minting of  *)
(* imajin-events, as a state machine over the shared database.             *)
(*                                                                         *)
(* Every HTTP handler is an async function: each `await db...` is one      *)
(* autocommitted statement, and other requests run between two awaits.     *)
(* A request is therefore a process (a slot of Procs) whose pc names the   *)
(* statement it executes next; one action is one statement together with   *)
(* the synchronous code that follows it up to the next await.              *)
(*                                                                         *)
(* Time is counted in hours.  Date.now() and new Date() read `now`.        *)
(***************************************************************************)
EXTENDS Integers, Sequences, FiniteSets

(***************************************************************************)
(* Bounds of the model.                                                    *)
(***************************************************************************)
NumProcs == 2        \* request slots: requests in flight at the same time
MaxStarted == 3      \* requests started in one behaviour of Spec
MaxHoldStarted == 3  \* requests started in one behaviour of SpecHold
MaxQueueStarted == 3 \* requests started in one behaviour of SpecQueue
MaxSeqStarted == 5   \* requests started in one behaviour of SpecHoldSeq, SpecQueueSeq
MaxSaleStarted == 3  \* requests started in one behaviour of SpecSeq
MaxTierStarted == 2  \* requests started in one behaviour of SpecTier
MaxTierSeqStarted == 3  \* requests started in one behaviour of SpecTierSeq
MaxEventStarted == 3 \* requests started in one behaviour of SpecEvent
MaxTransferStarted == 3  \* requests started in one behaviour of SpecTransfer
MaxFrameStarted == 2     \* requests started in one behaviour of SpecFrame
MaxCallbackStarted == 3  \* requests started in one behaviour of SpecCallback
MaxTtlStarted == 2       \* requests started in one behaviour of SpecHoldTtl
MaxMintStarted == 2      \* requests started in one behaviour of SpecMint
MaxAdminStarted == 2     \* requests started in one behaviour of SpecAdmin
MaxAdminSeqStarted == 3  \* requests started in one behaviour of SpecAdminSeq
MaxNow == 2          \* the clock stops here

Procs == 1..NumProcs

(***************************************************************************)
(* SQL NULL.  A nullable number or timestamp is <<>> (NULL) or <<v>>; a    *)
(* nullable text built from parts (an id, a DID derived from an e-mail) is *)
(* <<>> or the tuple of its parts; held_by is a plain string or "NULL".    *)
(***************************************************************************)
Null == <<>>
Some(v) == <<v>>
NULL == "NULL"

\* a field of a request body: absent, or given with value v
Undefined == <<>>
Given(v) == <<v>>

(***************************************************************************)
(* Inputs.                                                                 *)
(***************************************************************************)
Dids == {"X", "Y"}
QueueDids == {"X", "Y", "Z"}
EventIds == {"e1", "e2"}
TierIds == {"t1", "t2"}
Emails == {"a@x"}
QuantityStrings == {"1", "-1", "abc"}
CheckoutQuantities == {1, 2}

DEFAULT_HOLD_HOURS == 72
HoldHoursInputs == {1, DEFAULT_HOLD_HOURS}

VARIABLES
  events,        \* table events: set of rows, id is the primary key
  eventAdmins,   \* table event_admins: set of rows, (eventId, did) is the key
  ticketTypes,   \* table ticket_types: tier id -> row
  tickets,       \* table tickets: set of rows, id is the primary key
  ticketQueue,   \* table ticket_queue: set of rows, id is the primary key
  ticketTransfers, \* table ticket_transfers: the rows in the order of insertion
  sessions,      \* checkout sessions the pay service holds
  now,           \* the clock
  nextRand,      \* number of randomBytes() ids drawn so far
  pc,            \* per slot: the statement the request executes next
  req,           \* per slot: the request
  loc,           \* per slot: the handler's local variables
  resp,          \* per slot: the response, once the handler returned
  started,       \* observation: number of requests started so far
  maxAssigned,   \* observation: per tier, largest queue position ever assigned
  scen           \* observation: progress of the join X, Y, Z / leave Y scenario

dbVars == <<events, eventAdmins, ticketTypes, tickets, ticketQueue,
           ticketTransfers, sessions>>
procVars == <<pc, req, loc, resp>>
obsVars == <<started, maxAssigned, scen>>
vars == <<events, eventAdmins, ticketTypes, tickets, ticketQueue,
          ticketTransfers, sessions, now, nextRand, pc, req, loc, resp,
          started, maxAssigned, scen>>

(***************************************************************************)
(* The database after seeding.  Event e1 was created by X and has Y as an  *)
(* admin; event e2 was created by Y and has no admin.  Tier t1 of e1 is    *)
(* capped at one ticket, t2 of e2 is unlimited (quantity NULL); sold       *)
(* defaults to 0.                                                          *)
(***************************************************************************)
InitEvents ==
  { [id |-> "e1", did |-> <<"did:imajin", "e1">>, creatorDid |-> "X",
     title |-> "Launch", startsAt |-> 1, status |-> "published"],
    [id |-> "e2", did |-> <<"did:imajin", "e2">>, creatorDid |-> "Y",
     title |-> "Launch", startsAt |-> 1, status |-> "published"] }

InitEventAdmins ==
  { [eventId |-> "e1", did |-> "Y", role |-> "admin", addedBy |-> "X"] }

InitTicketTypes ==
  [t \in TierIds |->
     IF t = "t1"
       THEN [id |-> t, eventId |-> "e1", name |-> "Physical",
             description |-> "d", price |-> 10, quantity |-> Some(1),
             sold |-> 0, perks |-> <<"a">>]
       ELSE [id |-> t, eventId |-> "e2", name |-> "Virtual",
             description |-> "d", price |-> 10, quantity |-> Null,
             sold |-> 0, perks |-> <<"a">>]]

NoReq == [op |-> "none"]
NoLoc == [none |-> TRUE]
NoResp == [status |-> 0]

Init ==
  /\ events = InitEvents
  /\ eventAdmins = InitEventAdmins
  /\ ticketTypes = InitTicketTypes
  /\ tickets = {}
  /\ ticketQueue = {}
  /\ ticketTransfers = <<>>
  /\ sessions = {}
  /\ now = 0
  /\ nextRand = 0
  /\ pc = [p \in Procs |-> "idle"]
  /\ req = [p \in Procs |-> NoReq]
  /\ loc = [p \in Procs |-> NoLoc]
  /\ resp = [p \in Procs |-> NoResp]
  /\ started = 0
  /\ maxAssigned = [t \in TierIds |-> 0]
  /\ scen = Some(0)

(***************************************************************************)
(* JavaScript truthiness of a nullable number: null and 0 are falsy.       *)
(***************************************************************************)
Truthy(n) == n # Null /\ n[1] # 0

\* x || d for a nullable number
OrElse(n, d) == IF Truthy(n) THEN n[1] ELSE d

(***************************************************************************)
(* A request slot is free before its first request and once its handler   *)
(* has returned; the response of the last request stays readable until the *)
(* slot is taken again.  Slots are taken in order: slot p only when every  *)
(* lower slot is busy (which slot serves a request means nothing in the    *)
(* code).                                                                  *)
(***************************************************************************)
Free(p) == pc[p] \in {"idle", "done"}

FreeSlot(p) ==
  /\ Free(p)
  /\ \A q \in Procs : q < p => ~Free(q)

\* the handler of slot p goes to statement `next`, with locals l
Goto(p, next, l) ==
  /\ pc' = [pc EXCEPT ![p] = next]
  /\ loc' = [loc EXCEPT ![p] = l]
  /\ UNCHANGED <<req, resp>>

\* the handler of slot p returns response r
Return(p, r) ==
  /\ pc' = [pc EXCEPT ![p] = "done"]
  /\ resp' = [resp EXCEPT ![p] = r]
  /\ loc' = [loc EXCEPT ![p] = NoLoc]
  /\ UNCHANGED req

\* a request r arrives and is given slot p
Begin(p, r, first, maxStarted) ==
  /\ started < maxStarted
  /\ FreeSlot(p)
  /\ pc' = [pc EXCEPT ![p] = first]
  /\ req' = [req EXCEPT ![p] = r]
  /\ loc' = [loc EXCEPT ![p] = NoLoc]
  /\ resp' = [resp EXCEPT ![p] = NoResp]
  /\ started' = started + 1

(***************************************************************************)
(* POST /api/events/[id]/hold                                              *)
(***************************************************************************)

\* select from ticket_types where id = ticketTypeId and event_id = id
SelectTicketTypeOfEvent(ticketTypeId, eventId) ==
  { ticketTypes[t] : t \in { u \in DOMAIN ticketTypes :
                                /\ ticketTypes[u].id = ticketTypeId
                                /\ ticketTypes[u].eventId = eventId } }

\* mutant of HoldsOfIdentity: the wrong status is compared
HoldsOfIdentity_WrongStatus(ticketTypeId, did) ==
  { k \in tickets : /\ k.ticketTypeId = ticketTypeId
                    /\ k.heldBy = did
                    /\ k.status = "available" }

\* select from tickets where ticket_type_id, held_by and status = 'held'
HoldsOfIdentity(ticketTypeId, did) ==
  { k \in tickets : /\ k.ticketTypeId = ticketTypeId
                    /\ k.heldBy = did
                    /\ k.status = "held" }

\* lt(tickets.heldUntil, new Date()): NULL compares to nothing
HeldUntilBefore(k, t) == k.heldUntil # Null /\ k.heldUntil[1] < t

\* update tickets set status = 'available', held_by = null, held_until = null
\* where ticket_type_id and status = 'held' and held_until < now
ReleaseExpired(ticketTypeId) ==
  { IF /\ k.ticketTypeId = ticketTypeId
       /\ k.status = "held"
       /\ HeldUntilBefore(k, now)
      THEN [k EXCEPT !.status = "available", !.heldBy = NULL, !.heldUntil = Null]
      ELSE k
    : k \in tickets }

\* select from tickets where ticket_type_id and status = 'held'
HoldsOfTier(ticketTypeId) ==
  { k \in tickets : k.ticketTypeId = ticketTypeId /\ k.status = "held" }

\* mutant of NoTicketsAvailable: a null quantity is read as 0
NoTicketsAvailable_NullIsZero(ticketType, holdsLength) ==
  holdsLength >= OrElse(ticketType.quantity, 0) - OrElse(Some(ticketType.sold), 0)

\* ticketType.quantity && holds.length >= available, with
\* available = quantity ? quantity - (sold || 0) : Infinity
NoTicketsAvailable(ticketType, holdsLength) ==
  /\ Truthy(ticketType.quantity)
  /\ holdsLength >= ticketType.quantity[1] - OrElse(Some(ticketType.sold), 0)

\* `tkt_${randomBytes(12).toString('hex')}`: a fresh id
RandomTicketId == <<"tkt_rand", nextRand, 0>>

\* mutant of HoldRow: the holder is stored as the owner of the row
HoldRow_Owned(ticketId, eventId, ticketTypeId, did, holdUntil) ==
  [id |-> ticketId, eventId |-> eventId, ticketTypeId |-> ticketTypeId,
   status |-> "held", heldBy |-> did, heldUntil |-> Some(holdUntil),
   ownerDid |-> <<"did:holder", did>>, originalOwnerDid |-> Null,
   paymentId |-> Null, signature |-> Null]

HoldRow(ticketId, eventId, ticketTypeId, did, holdUntil) ==
  [id |-> ticketId, eventId |-> eventId, ticketTypeId |-> ticketTypeId,
   status |-> "held", heldBy |-> did, heldUntil |-> Some(holdUntil),
   ownerDid |-> Null, originalOwnerDid |-> Null, paymentId |-> Null,
   signature |-> Null]

HoldBegin(p, limit) ==
  /\ \E did \in Dids, eventId \in EventIds, ticketTypeId \in TierIds,
        holdHours \in HoldHoursInputs :
       Begin(p, [op |-> "hold", did |-> did, eventId |-> eventId,
                 ticketTypeId |-> ticketTypeId, holdHours |-> holdHours,
                 at |-> now],
             "hold_tier", limit)
  /\ UNCHANGED <<dbVars, now, nextRand, maxAssigned, scen>>

\* body.holdHours as the client sends it: absent, or any number
HoldHoursBodies == { Undefined, Given(-1), Given(0), Given(1) }

\* const { ticketTypeId, holdHours = DEFAULT_HOLD_HOURS } = body
HoldHoursOf(body) ==
  IF body.holdHours = Undefined THEN DEFAULT_HOLD_HOURS ELSE body.holdHours[1]

\* the request with the body as sent
HoldBeginBody(p, limit) ==
  /\ \E did \in Dids, eventId \in EventIds, ticketTypeId \in TierIds,
        holdHours \in HoldHoursBodies :
       LET body == [ticketTypeId |-> ticketTypeId, holdHours |-> holdHours]
       IN  Begin(p, [op |-> "hold", did |-> did, eventId |-> eventId,
                     ticketTypeId |-> ticketTypeId,
                     holdHours |-> HoldHoursOf(body), at |-> now, body |-> body],
                 "hold_tier", limit)
  /\ UNCHANGED <<dbVars, now, nextRand, maxAssigned, scen>>

HoldSelectTier(p) ==
  /\ pc[p] = "hold_tier"
  /\ LET found == SelectTicketTypeOfEvent(req[p].ticketTypeId, req[p].eventId)
     IN  IF found = {}
           THEN Return(p, [status |-> 404, error |-> "Ticket type not found"])
           ELSE \E ticketType \in found :
                  Goto(p, "hold_existing", [ticketType |-> ticketType])
  /\ UNCHANGED <<dbVars, now, nextRand, obsVars>>

HoldCheckExisting(p) ==
  /\ pc[p] = "hold_existing"
  /\ LET existing == HoldsOfIdentity(req[p].ticketTypeId, req[p].did)
     IN  IF existing # {}
           THEN \E existingHold \in existing :    \* limit(1): any one of them
                  Return(p, [status |-> 409,
                             error |-> "You already have a hold for this ticket type",
                             ticket |-> existingHold])
           ELSE Goto(p, "hold_sweep", loc[p])
  /\ UNCHANGED <<dbVars, now, nextRand, obsVars>>

HoldReleaseExpired(p) ==
  /\ pc[p] = "hold_sweep"
  /\ tickets' = ReleaseExpired(req[p].ticketTypeId)
  /\ Goto(p, "hold_count", loc[p])
  /\ UNCHANGED <<events, eventAdmins, ticketTransfers,
                 ticketTypes, ticketQueue, sessions,
                 now, nextRand, obsVars>>

HoldCountHolds(p) ==
  /\ pc[p] = "hold_count"
  /\ LET holds == HoldsOfTier(req[p].ticketTypeId)
     IN  IF NoTicketsAvailable(loc[p].ticketType, Cardinality(holds))
           THEN Return(p, [status |-> 409, error |-> "No tickets available",
                           queuePosition |-> Cardinality(holds) + 1])
           ELSE Goto(p, "hold_insert",
                     [ticketType |-> loc[p].ticketType,
                      holdUntil |-> now + req[p].holdHours])
  /\ UNCHANGED <<dbVars, now, nextRand, obsVars>>

HoldInsert(p) ==
  /\ pc[p] = "hold_insert"
  /\ LET ticket == HoldRow(RandomTicketId, req[p].eventId, req[p].ticketTypeId,
                           req[p].did, loc[p].holdUntil)
     IN  /\ tickets' = tickets \cup {ticket}
         /\ Return(p, [status |-> 201, error |-> "", ticket |-> ticket,
                       expiresAt |-> loc[p].holdUntil])
  /\ nextRand' = nextRand + 1
  /\ UNCHANGED <<events, eventAdmins, ticketTransfers,
                 ticketTypes, ticketQueue, sessions,
                 now, obsVars>>

(***************************************************************************)
(* DELETE /api/events/[id]/hold?ticketId=                                  *)
(***************************************************************************)

\* mutant of HeldTicketOfIdentity: the holder is not compared
HeldTicketOfIdentity_AnyHolder(ticketId, did) ==
  { k \in tickets : k.id = ticketId /\ k.status = "held" }

\* select from tickets where id, held_by and status = 'held'
HeldTicketOfIdentity(ticketId, did) ==
  { k \in tickets : k.id = ticketId /\ k.heldBy = did /\ k.status = "held" }

\* delete from tickets where id = ticketId
DeleteTicket(ticketId) == { k \in tickets : k.id # ticketId }

ReleaseBegin(p, limit) ==
  /\ \E did \in Dids, k \in tickets :
       Begin(p, [op |-> "release", did |-> did, ticketId |-> k.id], "rel_find", limit)
  /\ UNCHANGED <<dbVars, now, nextRand, maxAssigned, scen>>

ReleaseFind(p) ==
  /\ pc[p] = "rel_find"
  /\ IF HeldTicketOfIdentity(req[p].ticketId, req[p].did) = {}
       THEN Return(p, [status |-> 404, error |-> "Hold not found or not yours"])
       ELSE Goto(p, "rel_delete", loc[p])
  /\ UNCHANGED <<dbVars, now, nextRand, obsVars>>

ReleaseDelete(p) ==
  /\ pc[p] = "rel_delete"
  /\ tickets' = DeleteTicket(req[p].ticketId)
  /\ Return(p, [status |-> 200, error |-> ""])
  /\ UNCHANGED <<events, eventAdmins, ticketTransfers,
                 ticketTypes, ticketQueue, sessions,
                 now, nextRand, obsVars>>

(***************************************************************************)
(* POST /api/checkout                                                      *)
(***************************************************************************)

\* select from events where id = eventId
SelectEvent(eventId) == { e \in events : e.id = eventId }

\* mutant of CheckoutUnavailable: the sold counter is not subtracted
CheckoutUnavailable_IgnoresSold(ticketType, quantity) ==
  /\ ticketType.quantity # Null
  /\ ticketType.quantity[1] < quantity

\* ticketType.quantity !== null && quantity - (sold ?? 0) < requested
CheckoutUnavailable(ticketType, quantity) ==
  /\ ticketType.quantity # Null
  /\ ticketType.quantity[1] - ticketType.sold < quantity

\* String(quantity)
NumberToString(n) ==
  CASE n = 1 -> "1"
    [] n = 2 -> "2"
    [] n = 0 -> "0"
    [] n = -1 -> "-1"
    [] OTHER -> "NaN"

\* the session the pay service creates for an accepted checkout; its id is
\* the payment reference of the confirmation the pay service sends later
NewSession(event, ticketType, quantity, email) ==
  [id |-> <<"cs", Cardinality(sessions)>>,
   customerEmail |-> email,
   metadata |-> [eventId |-> event.id, eventDid |-> event.did,
                 ticketTypeId |-> ticketType.id,
                 quantity |-> NumberToString(quantity)]]

CheckoutBegin(p, limit) ==
  /\ \E eventId \in EventIds, ticketTypeId \in TierIds,
        quantity \in CheckoutQuantities, email \in Emails :
       Begin(p, [op |-> "checkout", eventId |-> eventId,
                 ticketTypeId |-> ticketTypeId,
                 quantity |-> OrElse(Some(quantity), 1), email |-> email],
             "co_select", limit)
  /\ UNCHANGED <<dbVars, now, nextRand, maxAssigned, scen>>

\* the two selects and the availability check; no handler that runs beside
\* a checkout writes events, so the select of the event is taken together
\* with the select of the tier
CheckoutSelect(p) ==
  /\ pc[p] = "co_select"
  /\ LET foundEvent == SelectEvent(req[p].eventId)
         foundType == SelectTicketTypeOfEvent(req[p].ticketTypeId, req[p].eventId)
     IN  IF foundEvent = {}
           THEN Return(p, [status |-> 404, error |-> "Event not found"])
         ELSE IF foundType = {}
           THEN Return(p, [status |-> 404, error |-> "Ticket type not found"])
         ELSE \E event \in foundEvent, ticketType \in foundType :
                IF CheckoutUnavailable(ticketType, req[p].quantity)
                  THEN Return(p, [status |-> 400, error |-> "Only n tickets available"])
                  ELSE Goto(p, "co_pay", [event |-> event, ticketType |-> ticketType])
  /\ UNCHANGED <<dbVars, now, nextRand, obsVars>>

\* fetch(`${PAY_SERVICE_URL}/api/checkout`): the pay service answers ok and
\* holds a new session, or answers an error
CheckoutPay(p) ==
  /\ pc[p] = "co_pay"
  /\ \E ok \in BOOLEAN :
       IF ok
         THEN LET session == NewSession(loc[p].event, loc[p].ticketType,
                                        req[p].quantity, req[p].email)
              IN  /\ sessions' = sessions \cup {session}
                  /\ Return(p, [status |-> 200, error |-> "",
                                sessionId |-> session.id])
         ELSE /\ sessions' = sessions
              /\ Return(p, [status |-> 500, error |-> "Payment service error"])
  /\ UNCHANGED <<events, eventAdmins, ticketTransfers,
                 ticketTypes, tickets, ticketQueue,
                 now, nextRand, obsVars>>

(***************************************************************************)
(* POST /api/webhook/payment, type checkout.completed                      *)
(***************************************************************************)

\* parseInt(s): NaN is Null
ParseInt(s) ==
  CASE s = "1" -> Some(1)
    [] s = "2" -> Some(2)
    [] s = "0" -> Some(0)
    [] s = "-1" -> Some(-1)
    [] OTHER -> Null

\* parseInt(metadata.quantity) || 1
WebhookQuantity(payload) == OrElse(ParseInt(payload.metadata.quantity), 1)

\* paymentId || sessionId
PaymentRef(payload) ==
  IF payload.paymentId # Null THEN payload.paymentId ELSE payload.sessionId

\* select from ticket_types where id = ticketTypeId
SelectTicketType(ticketTypeId) ==
  { ticketTypes[t] : t \in { u \in DOMAIN ticketTypes :
                                ticketTypes[u].id = ticketTypeId } }

\* `tkt_${Date.now().toString(36)}_${i}`
MintTicketId(i) == <<"tkt_ms", now, i>>

\* getOrCreateGuestDid: the DID the profile service answers, or the
\* fallback `did:email:${email.replace('@', '_at_')}` when it fails
GuestDids(email) == { <<"did:guest", email>>, <<"did:email", email>> }

\* mutant of MintRow: the first purchaser is not recorded
MintRow_NoOriginal(ticketId, event, ticketType, ownerDid, payload, signature) ==
  [id |-> ticketId, eventId |-> event.id, ticketTypeId |-> ticketType.id,
   status |-> "valid", heldBy |-> NULL, heldUntil |-> Null,
   ownerDid |-> ownerDid, originalOwnerDid |-> Null,
   paymentId |-> PaymentRef(payload), signature |-> signature]

MintRow(ticketId, event, ticketType, ownerDid, payload, signature) ==
  [id |-> ticketId, eventId |-> event.id, ticketTypeId |-> ticketType.id,
   status |-> "valid", heldBy |-> NULL, heldUntil |-> Null,
   ownerDid |-> ownerDid, originalOwnerDid |-> ownerDid,
   paymentId |-> PaymentRef(payload), signature |-> signature]

\* update ticket_types set sold = sold + quantity where id = ticketTypeId
AddSold(ticketTypeId, quantity) ==
  [t \in DOMAIN ticketTypes |->
     IF ticketTypes[t].id = ticketTypeId
       THEN [ticketTypes[t] EXCEPT !.sold = @ + quantity]
       ELSE ticketTypes[t]]

\* the pay service delivers the confirmation of one of its sessions, any
\* number of times
WebhookBegin(p, limit) ==
  /\ \E s \in sessions :
       Begin(p, [op |-> "webhook", type |-> "checkout.completed",
                 sessionId |-> s.id, paymentId |-> Null,
                 customerEmail |-> s.customerEmail, metadata |-> s.metadata],
             "wh_select", limit)
  /\ UNCHANGED <<dbVars, now, nextRand, maxAssigned, scen>>

\* the selects of the event and of the ticket type (by id alone); only the
\* ids and the event's DID are used afterwards, and no handler writes them
WebhookSelect(p) ==
  /\ pc[p] = "wh_select"
  /\ LET foundEvent == SelectEvent(req[p].metadata.eventId)
         foundType == SelectTicketType(req[p].metadata.ticketTypeId)
         quantity == WebhookQuantity(req[p])
     IN  IF foundEvent = {}
           THEN Return(p, [status |-> 500, error |-> "Event not found"])
         ELSE IF foundType = {}
           THEN Return(p, [status |-> 500, error |-> "Ticket type not found"])
         ELSE \E event \in foundEvent, ticketType \in foundType :
                Goto(p, IF 0 < quantity THEN "wh_register" ELSE "wh_sold",
                     [event |-> event, ticketType |-> ticketType,
                      quantity |-> quantity, i |-> 0, created |-> 0])
  /\ UNCHANGED <<dbVars, now, nextRand, obsVars>>

\* loop body up to the await of getOrCreateGuestDid
WebhookRegister(p) ==
  /\ pc[p] = "wh_register"
  /\ LET ticketId == MintTicketId(loc[p].i)
         signature == <<ticketId, loc[p].event.did, req[p].customerEmail, now>>
     IN  \E ownerDid \in GuestDids(req[p].customerEmail) :
           Goto(p, "wh_insert",
                [event |-> loc[p].event, ticketType |-> loc[p].ticketType,
                 quantity |-> loc[p].quantity, i |-> loc[p].i,
                 created |-> loc[p].created,
                 ticketId |-> ticketId, signature |-> signature,
                 ownerDid |-> ownerDid])
  /\ UNCHANGED <<dbVars, now, nextRand, obsVars>>

\* insert into tickets; a duplicate primary key makes the insert throw
WebhookInsert(p) ==
  /\ pc[p] = "wh_insert"
  /\ IF \E k \in tickets : k.id = loc[p].ticketId
       THEN /\ tickets' = tickets
            /\ Return(p, [status |-> 500, error |-> "duplicate key"])
       ELSE /\ tickets' = tickets \cup
                 { MintRow(loc[p].ticketId, loc[p].event, loc[p].ticketType,
                           loc[p].ownerDid, req[p], loc[p].signature) }
            /\ Goto(p, IF loc[p].i + 1 < loc[p].quantity
                         THEN "wh_register" ELSE "wh_sold",
                    [event |-> loc[p].event, ticketType |-> loc[p].ticketType,
                     quantity |-> loc[p].quantity, i |-> loc[p].i + 1,
                     created |-> loc[p].created + 1])
  /\ UNCHANGED <<events, eventAdmins, ticketTransfers,
                 ticketTypes, ticketQueue, sessions,
                 now, nextRand, obsVars>>

\* the update of sold, then the confirmation e-mail (sendEmail never throws
\* and writes nothing); createdTickets[0].id throws when no ticket was made
WebhookAddSold(p) ==
  /\ pc[p] = "wh_sold"
  /\ ticketTypes' = AddSold(loc[p].ticketType.id, loc[p].quantity)
  /\ IF loc[p].created = 0
       THEN Return(p, [status |-> 500, error |-> "TypeError"])
       ELSE Return(p, [status |-> 200, error |-> "", received |-> TRUE])
  /\ UNCHANGED <<events, eventAdmins, ticketTransfers,
                 tickets, ticketQueue, sessions, now,
                 nextRand, obsVars>>

(***************************************************************************)
(* Time passes.                                                            *)
(***************************************************************************)
Tick ==
  /\ now < MaxNow
  /\ now' = now + 1
  /\ UNCHANGED <<dbVars, nextRand, procVars, obsVars>>

(***************************************************************************)
(* Holds, checkout and payment confirmations, any interleaving.            *)
(***************************************************************************)
Next ==
  \/ \E p \in Procs :
       \/ HoldBegin(p, MaxStarted) \/ HoldSelectTier(p) \/ HoldCheckExisting(p)
       \/ HoldReleaseExpired(p) \/ HoldCountHolds(p) \/ HoldInsert(p)
       \/ ReleaseBegin(p, MaxStarted) \/ ReleaseFind(p) \/ ReleaseDelete(p)
       \/ CheckoutBegin(p, MaxStarted) \/ CheckoutSelect(p) \/ CheckoutPay(p)
       \/ WebhookBegin(p, MaxStarted) \/ WebhookSelect(p) \/ WebhookRegister(p)
       \/ WebhookInsert(p) \/ WebhookAddSold(p)
  \/ Tick

Spec == Init /\ [][Next]_vars

(***************************************************************************)
(* Holds alone: concurrent POST and DELETE of holds while time passes.     *)
(***************************************************************************)
NextHold ==
  \/ \E p \in Procs :
       \/ HoldBegin(p, MaxHoldStarted) \/ HoldSelectTier(p) \/ HoldCheckExisting(p)
       \/ HoldReleaseExpired(p) \/ HoldCountHolds(p) \/ HoldInsert(p)
       \/ ReleaseBegin(p, MaxHoldStarted) \/ ReleaseFind(p) \/ ReleaseDelete(p)
  \/ Tick

SpecHold == Init /\ [][NextHold]_vars

(***************************************************************************)
(* Holds, one request after the other: a request arrives only when no      *)
(* handler is running.                                                     *)
(***************************************************************************)
Quiet == \A q \in Procs : Free(q)

HoldBeginSeq(p) == Quiet /\ HoldBegin(p, MaxSeqStarted)

ReleaseBeginSeq(p) == Quiet /\ ReleaseBegin(p, MaxSeqStarted)

NextHoldSeq ==
  \/ \E p \in Procs :
       \/ HoldBeginSeq(p) \/ HoldSelectTier(p) \/ HoldCheckExisting(p)
       \/ HoldReleaseExpired(p) \/ HoldCountHolds(p) \/ HoldInsert(p)
       \/ ReleaseBeginSeq(p) \/ ReleaseFind(p) \/ ReleaseDelete(p)
  \/ Tick

SpecHoldSeq == Init /\ [][NextHoldSeq]_vars

(***************************************************************************)
(* Holds with the time-to-live the client chooses, one request after the   *)
(* other.                                                                  *)
(***************************************************************************)
HoldBeginTtl(p) == Quiet /\ HoldBeginBody(p, MaxTtlStarted)

NextHoldTtl ==
  \/ \E p \in Procs :
       \/ HoldBeginTtl(p) \/ HoldSelectTier(p) \/ HoldCheckExisting(p)
       \/ HoldReleaseExpired(p) \/ HoldCountHolds(p) \/ HoldInsert(p)
  \/ Tick

SpecHoldTtl == Init /\ [][NextHoldTtl]_vars

(***************************************************************************)
(* Payment confirmations of distinct payments, any interleaving: the pay   *)
(* service confirms each of its sessions once, the n-th confirmation being *)
(* that of session n.                                                      *)
(***************************************************************************)
ConfirmQuantities == {"1", "2"}

ConfirmBegin(p, limit) ==
  /\ \E email \in Emails, eventId \in EventIds, ticketTypeId \in TierIds,
        quantity \in ConfirmQuantities :
       Begin(p, [op |-> "webhook", type |-> "checkout.completed",
                 sessionId |-> <<"cs", started>>, paymentId |-> Null,
                 customerEmail |-> email,
                 metadata |-> [eventId |-> eventId,
                               eventDid |-> <<"did:imajin", eventId>>,
                               ticketTypeId |-> ticketTypeId,
                               quantity |-> quantity]],
             "wh_select", limit)
  /\ UNCHANGED <<dbVars, now, nextRand, maxAssigned, scen>>

NextMint ==
  \/ \E p \in Procs :
       \/ ConfirmBegin(p, MaxMintStarted) \/ WebhookSelect(p)
       \/ WebhookRegister(p) \/ WebhookInsert(p) \/ WebhookAddSold(p)
  \/ Tick

SpecMint == Init /\ [][NextMint]_vars

(***************************************************************************)
(* Holds, checkout and payment confirmations, one request after the other. *)
(***************************************************************************)
HoldBeginSale(p) == Quiet /\ HoldBegin(p, MaxSaleStarted)

ReleaseBeginSale(p) == Quiet /\ ReleaseBegin(p, MaxSaleStarted)

CheckoutBeginSale(p) == Quiet /\ CheckoutBegin(p, MaxSaleStarted)

WebhookBeginSale(p) == Quiet /\ WebhookBegin(p, MaxSaleStarted)

NextSeq ==
  \/ \E p \in Procs :
       \/ HoldBeginSale(p) \/ HoldSelectTier(p) \/ HoldCheckExisting(p)
       \/ HoldReleaseExpired(p) \/ HoldCountHolds(p) \/ HoldInsert(p)
       \/ ReleaseBeginSale(p) \/ ReleaseFind(p) \/ ReleaseDelete(p)
       \/ CheckoutBeginSale(p) \/ CheckoutSelect(p) \/ CheckoutPay(p)
       \/ WebhookBeginSale(p) \/ WebhookSelect(p) \/ WebhookRegister(p)
       \/ WebhookInsert(p) \/ WebhookAddSold(p)
  \/ Tick

SpecSeq == Init /\ [][NextSeq]_vars

(***************************************************************************)
(* /api/events/[id]/queue                                                  *)
(***************************************************************************)

\* select from ticket_queue where ticket_type_id, did and status = 'waiting'
WaitingOfIdentity(ticketTypeId, did) ==
  { e \in ticketQueue : /\ e.ticketTypeId = ticketTypeId
                        /\ e.did = did
                        /\ e.status = "waiting" }

\* select from ticket_queue where ticket_type_id and status = 'waiting'
WaitingOfTier(ticketTypeId) ==
  { e \in ticketQueue : e.ticketTypeId = ticketTypeId /\ e.status = "waiting" }

\* mutant of RankAmong: the entry counts itself
RankAmong_Inclusive(ahead, entry) ==
  Cardinality({ e \in ahead : e.position <= entry.position }) + 1

\* ahead.filter(e => e.position < entry.position).length + 1
RankAmong(ahead, entry) ==
  Cardinality({ e \in ahead : e.position < entry.position }) + 1

\* select max(position) from ticket_queue where ticket_type_id: NULL when
\* the tier has no row
MaxPosition(ticketTypeId) ==
  LET positions == { e.position : e \in { f \in ticketQueue :
                                           f.ticketTypeId = ticketTypeId } }
  IN  IF positions = {}
        THEN Null
        ELSE Some(CHOOSE m \in positions : \A n \in positions : n <= m)

\* (maxPos?.maxPosition || 0) + 1
NextPosition(maxPosition) == OrElse(maxPosition, 0) + 1

\* `q_${randomBytes(8).toString('hex')}`: a fresh id
RandomQueueId == <<"q_rand", nextRand, 0>>

QueueRow(queueId, ticketTypeId, did, position) ==
  [id |-> queueId, ticketTypeId |-> ticketTypeId, did |-> did,
   position |-> position, status |-> "waiting"]

\* mutant of DeleteWaiting: the identity is not compared
DeleteWaiting_AnyIdentity(ticketTypeId, did) ==
  ticketQueue \ WaitingOfTier(ticketTypeId)

\* delete from ticket_queue where ticket_type_id, did and status = 'waiting'
DeleteWaiting(ticketTypeId, did) ==
  ticketQueue \ WaitingOfIdentity(ticketTypeId, did)

(***************************************************************************)
(* Observation of the scenario "X, Y, Z join t1 in that order, then Y      *)
(* leaves": scen is <<k>> while the joins and leaves issued so far are     *)
(* exactly the first steps of the scenario, run one after the other, and   *)
(* k of them have returned; it is Null as soon as any other join or leave  *)
(* is issued, or two of them overlap.  Position queries write nothing and  *)
(* do not move it.                                                         *)
(***************************************************************************)
ScenarioD ==
  << [op |-> "join", did |-> "X"], [op |-> "join", did |-> "Y"],
     [op |-> "join", did |-> "Z"], [op |-> "leave", did |-> "Y"] >>

Writing(q) == req[q].op \in {"join", "leave"} /\ ~Free(q)

ScenBegin(op, did, ticketTypeId) ==
  IF /\ scen # Null
     /\ scen[1] < Len(ScenarioD)
     /\ ScenarioD[scen[1] + 1] = [op |-> op, did |-> did]
     /\ ticketTypeId = "t1"
     /\ \A q \in Procs : ~Writing(q)
    THEN scen
    ELSE Null

ScenReturn(status) ==
  IF scen # Null /\ status \in {200, 201} THEN Some(scen[1] + 1) ELSE Null

\* GET: position query
PositionBegin(p, limit) ==
  /\ \E did \in QueueDids, ticketTypeId \in TierIds :
       Begin(p, [op |-> "position", did |-> did, ticketTypeId |-> ticketTypeId,
                 stage |-> scen],
             "qget_entry", limit)
  /\ UNCHANGED <<dbVars, now, nextRand, maxAssigned, scen>>

PositionSelectEntry(p) ==
  /\ pc[p] = "qget_entry"
  /\ LET found == WaitingOfIdentity(req[p].ticketTypeId, req[p].did)
     IN  IF found = {}
           THEN Return(p, [status |-> 200, error |-> "", inQueue |-> FALSE])
           ELSE \E entry \in found :          \* limit(1): any one of them
                  Goto(p, "qget_ahead", [entry |-> entry])
  /\ UNCHANGED <<dbVars, now, nextRand, obsVars>>

PositionCountAhead(p) ==
  /\ pc[p] = "qget_ahead"
  /\ LET ahead == WaitingOfTier(req[p].ticketTypeId)
         position == RankAmong(ahead, loc[p].entry)
     IN  Return(p, [status |-> 200, error |-> "", inQueue |-> TRUE,
                    position |-> position, totalAhead |-> position - 1,
                    entry |-> loc[p].entry])
  /\ UNCHANGED <<dbVars, now, nextRand, obsVars>>

\* POST: join
JoinBegin(p, limit) ==
  /\ \E did \in QueueDids, eventId \in EventIds, ticketTypeId \in TierIds :
       /\ Begin(p, [op |-> "join", did |-> did, eventId |-> eventId,
                    ticketTypeId |-> ticketTypeId],
                "qjoin_tier", limit)
       /\ scen' = ScenBegin("join", did, ticketTypeId)
  /\ UNCHANGED <<dbVars, now, nextRand, maxAssigned>>

JoinSelectTier(p) ==
  /\ pc[p] = "qjoin_tier"
  /\ IF SelectTicketTypeOfEvent(req[p].ticketTypeId, req[p].eventId) = {}
       THEN /\ Return(p, [status |-> 404, error |-> "Ticket type not found"])
            /\ scen' = ScenReturn(404)
       ELSE /\ Goto(p, "qjoin_existing", loc[p])
            /\ scen' = scen
  /\ UNCHANGED <<dbVars, now, nextRand, started, maxAssigned>>

JoinCheckExisting(p) ==
  /\ pc[p] = "qjoin_existing"
  /\ LET found == WaitingOfIdentity(req[p].ticketTypeId, req[p].did)
     IN  IF found # {}
           THEN /\ \E existing \in found :    \* limit(1): any one of them
                     Return(p, [status |-> 409, error |-> "Already in queue",
                                position |-> existing.position])
                /\ scen' = ScenReturn(409)
           ELSE /\ Goto(p, "qjoin_max", loc[p])
                /\ scen' = scen
  /\ UNCHANGED <<dbVars, now, nextRand, started, maxAssigned>>

JoinSelectMax(p) ==
  /\ pc[p] = "qjoin_max"
  /\ Goto(p, "qjoin_insert",
          [nextPosition |-> NextPosition(MaxPosition(req[p].ticketTypeId))])
  /\ UNCHANGED <<dbVars, now, nextRand, obsVars>>

JoinInsert(p) ==
  /\ pc[p] = "qjoin_insert"
  /\ LET entry == QueueRow(RandomQueueId, req[p].ticketTypeId, req[p].did,
                           loc[p].nextPosition)
     IN  /\ ticketQueue' = ticketQueue \cup {entry}
         /\ Return(p, [status |-> 201, error |-> "", entry |-> entry,
                       position |-> loc[p].nextPosition,
                       maxBefore |-> maxAssigned[req[p].ticketTypeId]])
         /\ maxAssigned' =
              [maxAssigned EXCEPT ![req[p].ticketTypeId] =
                 IF loc[p].nextPosition > @ THEN loc[p].nextPosition ELSE @]
  /\ nextRand' = nextRand + 1
  /\ scen' = ScenReturn(201)
  /\ UNCHANGED <<events, eventAdmins, ticketTransfers,
                 ticketTypes, tickets, sessions, now,
                 started>>

\* DELETE: leave, one statement
LeaveBegin(p, limit) ==
  /\ \E did \in QueueDids, ticketTypeId \in TierIds :
       /\ Begin(p, [op |-> "leave", did |-> did, ticketTypeId |-> ticketTypeId],
                "qleave", limit)
       /\ scen' = ScenBegin("leave", did, ticketTypeId)
  /\ UNCHANGED <<dbVars, now, nextRand, maxAssigned>>

LeaveDelete(p) ==
  /\ pc[p] = "qleave"
  /\ LET result == WaitingOfIdentity(req[p].ticketTypeId, req[p].did)
     IN  /\ ticketQueue' = DeleteWaiting(req[p].ticketTypeId, req[p].did)
         /\ IF result = {}
              THEN /\ Return(p, [status |-> 404, error |-> "Not in queue"])
                   /\ scen' = ScenReturn(404)
              ELSE /\ Return(p, [status |-> 200, error |-> ""])
                   /\ scen' = ScenReturn(200)
  /\ UNCHANGED <<events, eventAdmins, ticketTransfers,
                 ticketTypes, tickets, sessions, now,
                 nextRand, started,
                 maxAssigned>>

(***************************************************************************)
(* The wait-list, any interleaving.                                        *)
(***************************************************************************)
NextQueue ==
  \E p \in Procs :
    \/ PositionBegin(p, MaxQueueStarted) \/ PositionSelectEntry(p)
    \/ PositionCountAhead(p)
    \/ JoinBegin(p, MaxQueueStarted) \/ JoinSelectTier(p)
    \/ JoinCheckExisting(p) \/ JoinSelectMax(p) \/ JoinInsert(p)
    \/ LeaveBegin(p, MaxQueueStarted) \/ LeaveDelete(p)

SpecQueue == Init /\ [][NextQueue]_vars

(***************************************************************************)
(* The wait-list, one request after the other: a request arrives only when *)
(* no handler is running.                                                  *)
(***************************************************************************)
PositionBeginSeq(p) == Quiet /\ PositionBegin(p, MaxSeqStarted)

JoinBeginSeq(p) == Quiet /\ JoinBegin(p, MaxSeqStarted)

LeaveBeginSeq(p) == Quiet /\ LeaveBegin(p, MaxSeqStarted)

NextQueueSeq ==
  \E p \in Procs :
    \/ PositionBeginSeq(p) \/ PositionSelectEntry(p) \/ PositionCountAhead(p)
    \/ JoinBeginSeq(p) \/ JoinSelectTier(p) \/ JoinCheckExisting(p)
    \/ JoinSelectMax(p) \/ JoinInsert(p)
    \/ LeaveBeginSeq(p) \/ LeaveDelete(p)

SpecQueueSeq == Init /\ [][NextQueueSeq]_vars

(***************************************************************************)
(* PUT /api/events/[id]/tiers: update of a tier under the append-only      *)
(* rules.  A body field is Undefined (absent) or Given(v).                 *)
(***************************************************************************)
NoBody ==
  [name |-> Undefined, description |-> Undefined, price |-> Undefined,
   quantity |-> Undefined, perks |-> Undefined]

TierUpdateBodies ==
  { NoBody,
    [NoBody EXCEPT !.price = Given(5)],
    [NoBody EXCEPT !.perks = Given(<<"a", "b">>)],
    [NoBody EXCEPT !.price = Given(8), !.perks = Given(<<"a", "c">>),
                   !.name = Given("VIP")],
    [NoBody EXCEPT !.quantity = Given(Some(0)), !.description = Given("d2")] }

\* body.tierId: the tier, or absent
TierIdInputs == { Given("t1"), Undefined }

Range(s) == { s[i] : i \in 1..Len(s) }

\* isEventAdmin: select creator_did from events where id = eventId
SelectCreatorDid(eventId) == { e.creatorDid : e \in SelectEvent(eventId) }

\* isEventAdmin: select from event_admins where event_id and did
SelectAdmin(eventId, did) ==
  { a \in eventAdmins : a.eventId = eventId /\ a.did = did }

\* price !== undefined && price > tier.price
PriceViolation(tier, price) ==
  price # Undefined /\ price[1] > tier.price

\* quantity !== undefined && quantity !== null && quantity < (tier.sold || 0)
QuantityViolation(tier, quantity) ==
  /\ quantity # Undefined
  /\ quantity[1] # Null
  /\ quantity[1][1] < OrElse(Some(tier.sold), 0)

\* currentPerks.filter(p => !newPerks.includes(p))
RemovedPerks(currentPerks, newPerks) ==
  SelectSeq(currentPerks, LAMBDA x : x \notin Range(newPerks))

\* perks !== undefined && removedPerks.length > 0
PerksViolation(tier, perks) ==
  perks # Undefined /\ Len(RemovedPerks(tier.perks, perks[1])) > 0

\* mutant of Violations: only the price check pushes to the list
Violations_PriceOnly(tier, body) ==
  IF PriceViolation(tier, body.price) THEN <<"price">> ELSE <<>>

\* the violations list, in the order the checks push to it
Violations(tier, body) ==
  (IF PriceViolation(tier, body.price) THEN <<"price">> ELSE <<>>)
  \o (IF QuantityViolation(tier, body.quantity) THEN <<"quantity">> ELSE <<>>)
  \o (IF PerksViolation(tier, body.perks) THEN <<"perks">> ELSE <<>>)

\* the updates object: every given field that passed its check
Updates(tier, body) ==
  [name |-> body.name,
   description |-> body.description,
   price |-> IF PriceViolation(tier, body.price) THEN Undefined ELSE body.price,
   quantity |-> IF QuantityViolation(tier, body.quantity)
                  THEN Undefined ELSE body.quantity,
   perks |-> IF PerksViolation(tier, body.perks) THEN Undefined ELSE body.perks]

\* mutant of SetTier: the update also resets the sold counter
SetTier_ResetSold(tierId, updates) ==
  [t \in DOMAIN ticketTypes |->
     IF ticketTypes[t].id = tierId
       THEN [ticketTypes[t] EXCEPT
               !.sold = 0,
               !.name = IF updates.name # Undefined THEN updates.name[1] ELSE @,
               !.price = IF updates.price # Undefined THEN updates.price[1] ELSE @]
       ELSE ticketTypes[t]]

\* update ticket_types set ...updates where id = tierId
SetTier(tierId, updates) ==
  [t \in DOMAIN ticketTypes |->
     IF ticketTypes[t].id = tierId
       THEN [ticketTypes[t] EXCEPT
               !.name = IF updates.name # Undefined THEN updates.name[1] ELSE @,
               !.description = IF updates.description # Undefined
                                 THEN updates.description[1] ELSE @,
               !.price = IF updates.price # Undefined THEN updates.price[1] ELSE @,
               !.quantity = IF updates.quantity # Undefined
                              THEN updates.quantity[1] ELSE @,
               !.perks = IF updates.perks # Undefined THEN updates.perks[1] ELSE @]
       ELSE ticketTypes[t]]

TierUpdateBegin(p, limit) ==
  /\ \E did \in Dids, eventId \in EventIds, tierId \in TierIdInputs,
        body \in TierUpdateBodies :
       Begin(p, [op |-> "tierUpdate", did |-> did, eventId |-> eventId,
                 tierId |-> tierId, body |-> body],
             "tu_event", limit)
  /\ UNCHANGED <<dbVars, now, nextRand, maxAssigned, scen>>

\* what follows the authorization: the body is read and tierId is required
TierUpdateAuthorized(p) ==
  IF req[p].tierId = Undefined
    THEN Return(p, [status |-> 400, error |-> "tierId is required"])
    ELSE Goto(p, "tu_select", loc[p])

\* isEventAdmin, first select: the event's creator
TierUpdateSelectEvent(p) ==
  /\ pc[p] = "tu_event"
  /\ LET creators == SelectCreatorDid(req[p].eventId)
     IN  IF creators = {}
           THEN Return(p, [status |-> 403, error |-> "Not authorized"])
         ELSE IF req[p].did \in creators
           THEN TierUpdateAuthorized(p)
         ELSE Goto(p, "tu_admin", loc[p])
  /\ UNCHANGED <<dbVars, now, nextRand, obsVars>>

\* isEventAdmin without its second select
TierUpdateSelectAdmin_Open(p) ==
  /\ pc[p] = "tu_admin"
  /\ TierUpdateAuthorized(p)
  /\ UNCHANGED <<dbVars, now, nextRand, obsVars>>

\* isEventAdmin, second select: the admin entry of the caller
TierUpdateSelectAdmin(p) ==
  /\ pc[p] = "tu_admin"
  /\ IF SelectAdmin(req[p].eventId, req[p].did) = {}
       THEN Return(p, [status |-> 403, error |-> "Not authorized"])
       ELSE TierUpdateAuthorized(p)
  /\ UNCHANGED <<dbVars, now, nextRand, obsVars>>

\* the select of the current tier and the validation of the body against it
TierUpdateSelectTier(p) ==
  /\ pc[p] = "tu_select"
  /\ LET found == SelectTicketTypeOfEvent(req[p].tierId[1], req[p].eventId)
     IN  IF found = {}
           THEN Return(p, [status |-> 404, error |-> "Tier not found"])
           ELSE \E tier \in found :
                  LET violations == Violations(tier, req[p].body)
                      updates == Updates(tier, req[p].body)
                  IN  IF Len(violations) > 0
                        THEN Return(p, [status |-> 400,
                                        error |-> "Append-only policy violation",
                                        violations |-> violations])
                      ELSE IF updates = NoBody
                        THEN Return(p, [status |-> 200, error |-> "",
                                        message |-> "No changes", tier |-> tier])
                      ELSE Goto(p, "tu_write", [tier |-> tier, updates |-> updates])
  /\ UNCHANGED <<dbVars, now, nextRand, obsVars>>

\* the update of the tier, returning the row
TierUpdateWrite(p) ==
  /\ pc[p] = "tu_write"
  /\ ticketTypes' = SetTier(req[p].tierId[1], loc[p].updates)
  /\ Return(p, [status |-> 200, error |-> "", message |-> "",
                tier |-> ticketTypes'[req[p].tierId[1]]])
  /\ UNCHANGED <<events, eventAdmins, ticketTransfers,
                 tickets, ticketQueue, sessions, now,
                 nextRand, obsVars>>

(***************************************************************************)
(* POST /api/webhook/payment as the endpoint takes it: any payload sent    *)
(* with the shared secret, whatever session the pay service holds.         *)
(***************************************************************************)
SessionIds == { <<"cs", 0>> }

DeliveryBegin(p, limit) ==
  /\ \E sessionId \in SessionIds, email \in Emails, eventId \in EventIds,
        ticketTypeId \in TierIds, quantity \in QuantityStrings :
       Begin(p, [op |-> "webhook", type |-> "checkout.completed",
                 sessionId |-> sessionId, paymentId |-> Null,
                 customerEmail |-> email,
                 metadata |-> [eventId |-> eventId,
                               eventDid |-> <<"did:imajin", eventId>>,
                               ticketTypeId |-> ticketTypeId,
                               quantity |-> quantity]],
             "wh_select", limit)
  /\ UNCHANGED <<dbVars, now, nextRand, maxAssigned, scen>>

(***************************************************************************)
(* Tier updates and payment confirmations, any interleaving.               *)
(***************************************************************************)
NextTier ==
  \/ \E p \in Procs :
       \/ TierUpdateBegin(p, MaxTierStarted) \/ TierUpdateSelectEvent(p)
       \/ TierUpdateSelectAdmin(p) \/ TierUpdateSelectTier(p)
       \/ TierUpdateWrite(p)
       \/ DeliveryBegin(p, MaxTierStarted) \/ WebhookSelect(p)
       \/ WebhookRegister(p) \/ WebhookInsert(p) \/ WebhookAddSold(p)
  \/ Tick

SpecTier == Init /\ [][NextTier]_vars

(***************************************************************************)
(* Tier updates and payment confirmations, one request after the other.    *)
(***************************************************************************)
TierUpdateBeginSeq(p) == Quiet /\ TierUpdateBegin(p, MaxTierSeqStarted)

DeliveryBeginSeq(p) == Quiet /\ DeliveryBegin(p, MaxTierSeqStarted)

NextTierSeq ==
  \/ \E p \in Procs :
       \/ TierUpdateBeginSeq(p) \/ TierUpdateSelectEvent(p)
       \/ TierUpdateSelectAdmin(p) \/ TierUpdateSelectTier(p)
       \/ TierUpdateWrite(p)
       \/ DeliveryBeginSeq(p) \/ WebhookSelect(p)
       \/ WebhookRegister(p) \/ WebhookInsert(p) \/ WebhookAddSold(p)
  \/ Tick

SpecTierSeq == Init /\ [][NextTierSeq]_vars

(***************************************************************************)
(* POST /api/events: creation of an event, with its keypair and its tiers. *)
(***************************************************************************)

\* randomBytes(n).toString('hex'): the k-th draw, every draw a fresh value
RandomHex == <<"00", "01", "02", "03", "04", "05", "06", "07", "08", "09">>

\* `evt_${randomBytes(12).toString('hex')}` and
\* `tkt_type_${randomBytes(8).toString('hex')}`
EventIdOfHex ==
  [h \in Range(RandomHex) |->
     CASE h = "00" -> "evt_00" [] h = "01" -> "evt_01" [] h = "02" -> "evt_02"
       [] h = "03" -> "evt_03" [] h = "04" -> "evt_04" [] h = "05" -> "evt_05"
       [] h = "06" -> "evt_06" [] h = "07" -> "evt_07" [] h = "08" -> "evt_08"
       [] OTHER -> "evt_09"]

TierIdOfHex ==
  [h \in Range(RandomHex) |->
     CASE h = "00" -> "tkt_type_00" [] h = "01" -> "tkt_type_01"
       [] h = "02" -> "tkt_type_02" [] h = "03" -> "tkt_type_03"
       [] h = "04" -> "tkt_type_04" [] h = "05" -> "tkt_type_05"
       [] h = "06" -> "tkt_type_06" [] h = "07" -> "tkt_type_07"
       [] h = "08" -> "tkt_type_08" [] OTHER -> "tkt_type_09"]

\* generateEventKeypair: a random private key and the public key derived
\* from it
RandomPrivateKey == <<"sk", RandomHex[nextRand + 1]>>

GetPublicKey(privateKey) == <<"pk", privateKey[2]>>

\* `did:imajin:${publicKey.slice(0, 16)}`
EventDid(publicKey) == <<"did:imajin", publicKey[2]>>

\* body.title and body.startsAt: absent or given
TitleInputs == {Undefined, Given("Party")}
StartsAtInputs == {Undefined, Given(2)}

\* body.tickets: absent, or one ticket type
TicketTypesInputs ==
  { Undefined,
    Given(<< [name |-> "GA", description |-> "d", price |-> 10,
              quantity |-> Some(2), perks |-> <<"a">>] >>) }

EventRow(eventId, eventDid, creatorDid, title, startsAt) ==
  [id |-> eventId, did |-> eventDid, creatorDid |-> creatorDid,
   title |-> title, startsAt |-> startsAt, status |-> "draft"]

TierRow(ttId, eventId, tt) ==
  [id |-> ttId, eventId |-> eventId, name |-> tt.name,
   description |-> tt.description, price |-> tt.price,
   quantity |-> tt.quantity, sold |-> 0, perks |-> tt.perks]

\* insert into ticket_types
InsertTier(row) ==
  [t \in DOMAIN ticketTypes \cup {row.id} |->
     IF t = row.id THEN row ELSE ticketTypes[t]]

EventCreateBegin(p, limit) ==
  /\ \E did \in Dids, title \in TitleInputs, startsAt \in StartsAtInputs,
        ticketTypesInput \in TicketTypesInputs :
       Begin(p, [op |-> "eventCreate", did |-> did, title |-> title,
                 startsAt |-> startsAt, tickets |-> ticketTypesInput],
             "ec_register", limit)
  /\ UNCHANGED <<dbVars, now, nextRand, maxAssigned, scen>>

\* validation of the body, the event id, the keypair, and the registration
\* of the event's public key with the auth service, which accepts or not
EventCreateRegister(p) ==
  /\ pc[p] = "ec_register"
  /\ IF req[p].title = Undefined
       THEN /\ Return(p, [status |-> 400, error |-> "title is required"])
            /\ nextRand' = nextRand
     ELSE IF req[p].startsAt = Undefined
       THEN /\ Return(p, [status |-> 400, error |-> "startsAt is required"])
            /\ nextRand' = nextRand
     ELSE /\ nextRand' = nextRand + 1
          /\ \E ok \in BOOLEAN :
               IF ok
                 THEN LET privateKey == RandomPrivateKey
                          publicKey == GetPublicKey(privateKey)
                      IN  Goto(p, "ec_insert",
                               [eventId |-> EventIdOfHex[RandomHex[nextRand + 1]],
                                eventKeypair |-> [publicKey |-> publicKey,
                                                  privateKey |-> privateKey],
                                eventDid |-> EventDid(publicKey)])
                 ELSE Return(p, [status |-> 500,
                                 error |-> "Failed to register event DID"])
  /\ UNCHANGED <<dbVars, now, obsVars>>

\* the response of a created event: the event, its tiers and its keypair
EventCreated(p, event, createdTicketTypes) ==
  Return(p, [status |-> 201, error |-> "", event |-> event,
             ticketTypes |-> createdTicketTypes,
             eventKeypair |-> [publicKey |-> loc[p].eventKeypair.publicKey,
                               privateKey |-> loc[p].eventKeypair.privateKey]])

\* insert into events
EventCreateInsert(p) ==
  /\ pc[p] = "ec_insert"
  /\ LET event == EventRow(loc[p].eventId, loc[p].eventDid, req[p].did,
                           req[p].title[1], req[p].startsAt[1])
     IN  /\ events' = events \cup {event}
         /\ IF req[p].tickets = Undefined \/ Len(req[p].tickets[1]) = 0
              THEN EventCreated(p, event, <<>>)
              ELSE Goto(p, "ec_tier",
                        [eventId |-> loc[p].eventId,
                         eventKeypair |-> loc[p].eventKeypair,
                         event |-> event, i |-> 1, createdTicketTypes |-> <<>>])
  /\ UNCHANGED <<eventAdmins, ticketTransfers,
                 ticketTypes, tickets, ticketQueue, sessions, now,
                 nextRand, obsVars>>

\* loop body: insert into ticket_types
EventCreateInsertTier(p) ==
  /\ pc[p] = "ec_tier"
  /\ LET ticketType == TierRow(TierIdOfHex[RandomHex[nextRand + 1]],
                               loc[p].event.id, req[p].tickets[1][loc[p].i])
         created == Append(loc[p].createdTicketTypes, ticketType)
     IN  /\ ticketTypes' = InsertTier(ticketType)
         /\ IF loc[p].i < Len(req[p].tickets[1])
              THEN Goto(p, "ec_tier",
                        [loc[p] EXCEPT !.i = @ + 1, !.createdTicketTypes = created])
              ELSE EventCreated(p, loc[p].event, created)
  /\ nextRand' = nextRand + 1
  /\ UNCHANGED <<events, eventAdmins, ticketTransfers,
                 tickets, ticketQueue, sessions, now,
                 obsVars>>

(***************************************************************************)
(* PUT /api/events/[id]: update of an event by its creator or an admin.    *)
(* Of the body, the fields title, startsAt and status are modelled; the    *)
(* others are copied to their columns the same way.                        *)
(***************************************************************************)
NoEventBody == [title |-> Undefined, startsAt |-> Undefined, status |-> Undefined]

EventUpdateBodies ==
  { [NoEventBody EXCEPT !.title = Given("Gala")],
    [NoEventBody EXCEPT !.status = Given("published")],
    [NoEventBody EXCEPT !.status = Given("cancelled"), !.startsAt = Given(2)],
    [NoEventBody EXCEPT !.status = Given("sold_out")] }

\* update events set ...updates where id = eventId
SetEvent(eventId, updates) ==
  { IF e.id = eventId
      THEN [e EXCEPT
              !.title = IF updates.title # Undefined THEN updates.title[1] ELSE @,
              !.startsAt = IF updates.startsAt # Undefined
                             THEN updates.startsAt[1] ELSE @,
              !.status = IF updates.status # Undefined
                           THEN updates.status[1] ELSE @]
      ELSE e
    : e \in events }

EventUpdateBegin(p, limit) ==
  /\ \E did \in Dids, eventId \in EventIds \cup {"evt_00"},
        body \in EventUpdateBodies :
       Begin(p, [op |-> "eventUpdate", did |-> did, eventId |-> eventId,
                 body |-> body],
             "eu_select", limit)
  /\ UNCHANGED <<dbVars, now, nextRand, maxAssigned, scen>>

\* the select of the event and the check of its creator
EventUpdateSelect(p) ==
  /\ pc[p] = "eu_select"
  /\ LET found == SelectEvent(req[p].eventId)
     IN  IF found = {}
           THEN Return(p, [status |-> 404, error |-> "Event not found"])
           ELSE \E event \in found :
                  IF event.creatorDid = req[p].did
                    THEN Goto(p, "eu_write", loc[p])
                    ELSE Goto(p, "eu_admin", loc[p])
  /\ UNCHANGED <<dbVars, now, nextRand, obsVars>>

\* the select of the caller's admin entry
EventUpdateSelectAdmin(p) ==
  /\ pc[p] = "eu_admin"
  /\ IF SelectAdmin(req[p].eventId, req[p].did) = {}
       THEN Return(p, [status |-> 403,
                       error |-> "Not authorized to update this event"])
       ELSE Goto(p, "eu_write", loc[p])
  /\ UNCHANGED <<dbVars, now, nextRand, obsVars>>

\* the update of the event with every given field, returning the row
EventUpdateWrite(p) ==
  /\ pc[p] = "eu_write"
  /\ events' = SetEvent(req[p].eventId, req[p].body)
  /\ Return(p, [status |-> 200, error |-> "",
                event |-> { e \in events' : e.id = req[p].eventId }])
  /\ UNCHANGED <<eventAdmins, ticketTransfers, ticketTypes, tickets,
                 ticketQueue, sessions, now, nextRand, obsVars>>

(***************************************************************************)
(* Creation and update of events, any interleaving.                        *)
(***************************************************************************)
NextEvent ==
  \E p \in Procs :
    \/ EventCreateBegin(p, MaxEventStarted) \/ EventCreateRegister(p)
    \/ EventCreateInsert(p) \/ EventCreateInsertTier(p)
    \/ EventUpdateBegin(p, MaxEventStarted) \/ EventUpdateSelect(p)
    \/ EventUpdateSelectAdmin(p) \/ EventUpdateWrite(p)

SpecEvent == Init /\ [][NextEvent]_vars

(***************************************************************************)
(* Transfer Ledger: POST /api/tickets/[id]/transfer.  The route is         *)
(* declared by the project (its table is in the schema) and its handler is *)
(* not among the source files; the operation is modelled from its contract *)
(* transfer(ticketId, fromIdentity, toIdentity, signature).                *)
(***************************************************************************)

\* identities that own a signing key: the buyer's guest identity and B
KeyedDids == { <<"did:guest", "a@x">>, <<"did:imajin", "B">> }

\* the identities a transfer names as its sender: the keyed ones and the
\* buyer's fallback identity, which has no key
FromDids == KeyedDids \cup { <<"did:email", "a@x">> }

ToDids == KeyedDids

\* the canonical payload {ticketId, fromIdentity, toIdentity, timestamp}
TransferPayload(ticketId, fromIdentity, toIdentity, timestamp) ==
  <<ticketId, fromIdentity, toIdentity, timestamp>>

\* a signature is made with the key of the signer over a payload
Sign(signer, payload) == [signer |-> signer, payload |-> payload]

\* the signature verifies against the key of `did` over `payload`
Verifies(signature, did, payload) ==
  signature.signer = did /\ signature.payload = payload

\* select from ticket_transfers where ticket_id, oldest first
TransfersOfTicket(ticketId) ==
  SelectSeq(ticketTransfers, LAMBDA x : x.ticketId = ticketId)

\* mutant of CurrentOwner: the transfer log is not consulted
CurrentOwner_Original(ticket) == ticket.originalOwnerDid

\* the derived owner: the `to` of the most recent Transfer of the ticket, or
\* its originalOwnerDid when it has none
CurrentOwner(ticket) ==
  LET log == TransfersOfTicket(ticket.id)
  IN  IF Len(log) = 0 THEN ticket.originalOwnerDid ELSE log[Len(log)].toDid

\* `xfer_xxx`: a fresh id
RandomTransferId == <<"xfer_rand", nextRand, 0>>

TransferRow(transferId, ticketId, fromDid, toDid, signature) ==
  [id |-> transferId, ticketId |-> ticketId, fromDid |-> fromDid,
   toDid |-> toDid, transferredAt |-> now, signature |-> signature]

\* update tickets set owner_did = did where id = ticketId
SetOwner(ticketId, did) ==
  { IF k.id = ticketId THEN [k EXCEPT !.ownerDid = did] ELSE k : k \in tickets }

\* a transfer request: the signature is made by any keyed identity, over the
\* payload of this request or over one that names another recipient
TransferBegin(p, limit) ==
  /\ \E k \in tickets, fromIdentity \in FromDids, toIdentity \in ToDids,
        signer \in KeyedDids, signedTo \in ToDids :
       Begin(p, [op |-> "transfer", ticketId |-> k.id,
                 fromIdentity |-> fromIdentity, toIdentity |-> toIdentity,
                 timestamp |-> now,
                 signature |-> Sign(signer,
                                    TransferPayload(k.id, fromIdentity,
                                                    signedTo, now))],
             "xfer", limit)
  /\ UNCHANGED <<dbVars, now, nextRand, maxAssigned, scen>>

\* the preconditions and the effect, one transaction
TransferCommit(p) ==
  /\ pc[p] = "xfer"
  /\ LET found == { k \in tickets : k.id = req[p].ticketId }
         payload == TransferPayload(req[p].ticketId, req[p].fromIdentity,
                                    req[p].toIdentity, req[p].timestamp)
         Rejected(error) ==
           /\ Return(p, [status |-> 400, error |-> error])
           /\ UNCHANGED <<tickets, ticketTransfers, nextRand>>
     IN  IF found = {}
           THEN Rejected("TicketNotTransferable")
         ELSE \E ticket \in found :
           IF req[p].fromIdentity # CurrentOwner(ticket)
             THEN Rejected("NotOwner")
           ELSE IF ticket.status # "valid"
             THEN Rejected("TicketNotTransferable")
           ELSE IF ~Verifies(req[p].signature, req[p].fromIdentity, payload)
             THEN Rejected("InvalidSignature")
           ELSE LET transfer == TransferRow(RandomTransferId, ticket.id,
                                            req[p].fromIdentity,
                                            req[p].toIdentity,
                                            req[p].signature)
                IN  /\ ticketTransfers' = Append(ticketTransfers, transfer)
                    /\ tickets' = SetOwner(ticket.id, req[p].toIdentity)
                    /\ nextRand' = nextRand + 1
                    /\ Return(p, [status |-> 200, error |-> "",
                                  transfer |-> transfer])
  /\ UNCHANGED <<events, eventAdmins, ticketTypes, ticketQueue, sessions, now,
                 obsVars>>

(***************************************************************************)
(* Payment confirmations and transfers, one request after the other.       *)
(***************************************************************************)
DeliveryBeginLedger(p) == Quiet /\ DeliveryBegin(p, MaxTransferStarted)

TransferBeginLedger(p) == Quiet /\ TransferBegin(p, MaxTransferStarted)

NextTransfer ==
  \/ \E p \in Procs :
       \/ DeliveryBeginLedger(p) \/ WebhookSelect(p)
       \/ WebhookRegister(p) \/ WebhookInsert(p) \/ WebhookAddSold(p)
       \/ TransferBeginLedger(p) \/ TransferCommit(p)
  \/ Tick

SpecTransfer == Init /\ [][NextTransfer]_vars

(***************************************************************************)
(* POST /api/webhook/payment from its first line: the check of the shared  *)
(* secret, the dispatch on the type, and the payment.failed handler.       *)
(***************************************************************************)
WEBHOOK_SECRET == "dev-secret"

\* the authorization header: absent, or `Bearer <secret>`
AuthHeaders == { Null, <<"Bearer", WEBHOOK_SECRET>>, <<"Bearer", "guess">> }

CallbackTypes == { "checkout.completed", "payment.failed" }

\* metadata.eventId and metadata.ticketTypeId: also ids of no row
CallbackEventIds == EventIds \cup { "e9" }
CallbackTierIds == TierIds \cup { "t9" }
CallbackQuantities == { "1" }

\* mutant of Unauthorized: the header is not compared
Unauthorized_Never(authHeader) == FALSE

\* authHeader !== `Bearer ${WEBHOOK_SECRET}`
Unauthorized(authHeader) == authHeader # <<"Bearer", WEBHOOK_SECRET>>

CallbackBegin(p, limit) ==
  /\ \E authHeader \in AuthHeaders, type \in CallbackTypes,
        sessionId \in SessionIds, email \in Emails,
        eventId \in CallbackEventIds, ticketTypeId \in CallbackTierIds,
        quantity \in CallbackQuantities :
       Begin(p, [op |-> "webhook", authorization |-> authHeader, type |-> type,
                 sessionId |-> sessionId, paymentId |-> Null,
                 customerEmail |-> email,
                 metadata |-> [eventId |-> eventId,
                               eventDid |-> <<"did:imajin", eventId>>,
                               ticketTypeId |-> ticketTypeId,
                               quantity |-> quantity]],
             "wh_auth", limit)
  /\ UNCHANGED <<dbVars, now, nextRand, maxAssigned, scen>>

\* the check of the secret and the dispatch on payload.type
WebhookDispatch(p) ==
  /\ pc[p] = "wh_auth"
  /\ IF Unauthorized(req[p].authorization)
       THEN Return(p, [status |-> 401, error |-> "Unauthorized"])
     ELSE IF req[p].type = "checkout.completed"
       THEN Goto(p, "wh_select", loc[p])
     ELSE IF req[p].type = "payment.failed"
       THEN Goto(p, "pf_event", loc[p])
     ELSE Return(p, [status |-> 200, error |-> "", received |-> TRUE])
  /\ UNCHANGED <<dbVars, now, nextRand, obsVars>>

\* handlePaymentFailed: the select of the event
PaymentFailedSelectEvent(p) ==
  /\ pc[p] = "pf_event"
  /\ IF SelectEvent(req[p].metadata.eventId) = {}
       THEN Return(p, [status |-> 200, error |-> "", received |-> TRUE])
       ELSE Goto(p, "pf_tier", loc[p])
  /\ UNCHANGED <<dbVars, now, nextRand, obsVars>>

\* handlePaymentFailed: the select of the ticket type, and the log line
PaymentFailedSelectTier(p) ==
  /\ pc[p] = "pf_tier"
  /\ Return(p, [status |-> 200, error |-> "", received |-> TRUE])
  /\ UNCHANGED <<dbVars, now, nextRand, obsVars>>

(***************************************************************************)
(* Payment callbacks of any sender, one request after the other.           *)
(***************************************************************************)
CallbackBeginSeq(p) == Quiet /\ CallbackBegin(p, MaxCallbackStarted)

NextCallback ==
  \/ \E p \in Procs :
       \/ CallbackBeginSeq(p) \/ WebhookDispatch(p)
       \/ WebhookSelect(p) \/ WebhookRegister(p) \/ WebhookInsert(p)
       \/ WebhookAddSold(p)
       \/ PaymentFailedSelectEvent(p) \/ PaymentFailedSelectTier(p)
  \/ Tick

SpecCallback == Init /\ [][NextCallback]_vars

(***************************************************************************)
(* POST /api/events/[id]/tiers: creation of a tier by the creator or an    *)
(* admin of the event.                                                     *)
(***************************************************************************)
NoTierBody ==
  [name |-> Undefined, description |-> Undefined, price |-> Undefined,
   quantity |-> Undefined, perks |-> Undefined]

TierCreateBodies ==
  { [NoTierBody EXCEPT !.price = Given(5)],
    [NoTierBody EXCEPT !.name = Given("Late"), !.price = Given(-1)],
    [NoTierBody EXCEPT !.name = Given("Late"), !.price = Given(5),
                       !.quantity = Given(Some(1))] }

\* price === undefined || price < 0
PriceInvalid(price) == price = Undefined \/ price[1] < 0

\* the values of the insert: an absent description or quantity is NULL, and
\* perks || []
NewTier(body) ==
  [name |-> body.name[1],
   description |-> IF body.description = Undefined THEN NULL ELSE body.description[1],
   price |-> body.price[1],
   quantity |-> IF body.quantity = Undefined THEN Null ELSE body.quantity[1],
   perks |-> IF body.perks = Undefined THEN <<>> ELSE body.perks[1]]

TierCreateBegin(p, limit) ==
  /\ \E did \in Dids, eventId \in EventIds, body \in TierCreateBodies :
       Begin(p, [op |-> "tierCreate", did |-> did, eventId |-> eventId,
                 body |-> body],
             "tc_event", limit)
  /\ UNCHANGED <<dbVars, now, nextRand, maxAssigned, scen>>

\* what follows the authorization: the validation of the body
TierCreateAuthorized(p) ==
  IF req[p].body.name = Undefined
    THEN Return(p, [status |-> 400, error |-> "name is required"])
  ELSE IF PriceInvalid(req[p].body.price)
    THEN Return(p, [status |-> 400, error |-> "price must be >= 0"])
  ELSE Goto(p, "tc_insert", loc[p])

\* isEventAdmin, first select: the event's creator
TierCreateSelectEvent(p) ==
  /\ pc[p] = "tc_event"
  /\ LET creators == SelectCreatorDid(req[p].eventId)
     IN  IF creators = {}
           THEN Return(p, [status |-> 403, error |-> "Not authorized"])
         ELSE IF req[p].did \in creators
           THEN TierCreateAuthorized(p)
         ELSE Goto(p, "tc_admin", loc[p])
  /\ UNCHANGED <<dbVars, now, nextRand, obsVars>>

\* isEventAdmin, second select: the admin entry of the caller
TierCreateSelectAdmin(p) ==
  /\ pc[p] = "tc_admin"
  /\ IF SelectAdmin(req[p].eventId, req[p].did) = {}
       THEN Return(p, [status |-> 403, error |-> "Not authorized"])
       ELSE TierCreateAuthorized(p)
  /\ UNCHANGED <<dbVars, now, nextRand, obsVars>>

\* insert into ticket_types, returning the row
TierCreateInsert(p) ==
  /\ pc[p] = "tc_insert"
  /\ LET tier == TierRow(TierIdOfHex[RandomHex[nextRand + 1]], req[p].eventId,
                         NewTier(req[p].body))
     IN  /\ ticketTypes' = InsertTier(tier)
         /\ Return(p, [status |-> 201, error |-> "", tier |-> tier])
  /\ nextRand' = nextRand + 1
  /\ UNCHANGED <<events, eventAdmins, ticketTransfers, tickets, ticketQueue,
                 sessions, now, obsVars>>

(***************************************************************************)
(* POST and DELETE /api/events/[id]/admins: an admin is added or removed.  *)
(***************************************************************************)
AdminDidInputs == { Undefined, Given("X"), Given("Y"), Given("Z") }
RoleInputs == { "admin", "owner" }

\* select from event_admins where event_id and did
AdminRow(eventId, did, role, addedBy) ==
  [eventId |-> eventId, did |-> did, role |-> role, addedBy |-> addedBy]

\* delete from event_admins where event_id and did
DeleteAdmin(eventId, did) == eventAdmins \ SelectAdmin(eventId, did)

AdminAddBegin(p, limit) ==
  /\ \E caller \in Dids, eventId \in EventIds, did \in AdminDidInputs,
        role \in RoleInputs :
       Begin(p, [op |-> "adminAdd", did |-> caller, eventId |-> eventId,
                 body |-> [did |-> did, role |-> role]],
             "aa_event", limit)
  /\ UNCHANGED <<dbVars, now, nextRand, maxAssigned, scen>>

\* what follows the authorization: the validation of the body
AdminAddAuthorized(p, event, isCreator) ==
  IF req[p].body.did = Undefined
    THEN Return(p, [status |-> 400, error |-> "did is required"])
  ELSE IF req[p].body.did[1] = req[p].did
    THEN Return(p, [status |-> 400, error |-> "Cannot add yourself as admin"])
  ELSE IF req[p].body.did[1] = event.creatorDid
    THEN Return(p, [status |-> 400, error |-> "Creator is already the owner"])
  ELSE Goto(p, "aa_existing", [event |-> event, isCreator |-> isCreator])

\* the select of the event and the check of its creator
AdminAddSelectEvent(p) ==
  /\ pc[p] = "aa_event"
  /\ LET found == SelectEvent(req[p].eventId)
     IN  IF found = {}
           THEN Return(p, [status |-> 404, error |-> "Event not found"])
           ELSE \E event \in found :
                  IF event.creatorDid = req[p].did
                    THEN AdminAddAuthorized(p, event, TRUE)
                    ELSE Goto(p, "aa_admin", [event |-> event])
  /\ UNCHANGED <<dbVars, now, nextRand, obsVars>>

\* the caller's admin entry is not looked up
AdminAddSelectAdmin_Open(p) ==
  /\ pc[p] = "aa_admin"
  /\ AdminAddAuthorized(p, loc[p].event, FALSE)
  /\ UNCHANGED <<dbVars, now, nextRand, obsVars>>

\* the select of the caller's admin entry
AdminAddSelectAdmin(p) ==
  /\ pc[p] = "aa_admin"
  /\ IF SelectAdmin(req[p].eventId, req[p].did) = {}
       THEN Return(p, [status |-> 403, error |-> "Not authorized"])
       ELSE AdminAddAuthorized(p, loc[p].event, FALSE)
  /\ UNCHANGED <<dbVars, now, nextRand, obsVars>>

\* the select of the entry of the new admin, and the rule on owners
AdminAddCheckExisting(p) ==
  /\ pc[p] = "aa_existing"
  /\ IF SelectAdmin(req[p].eventId, req[p].body.did[1]) # {}
       THEN Return(p, [status |-> 409, error |-> "Already an admin"])
     ELSE IF req[p].body.role = "owner" /\ ~loc[p].isCreator
       THEN Return(p, [status |-> 403, error |-> "Only creator can add owners"])
     ELSE Goto(p, "aa_insert", loc[p])
  /\ UNCHANGED <<dbVars, now, nextRand, obsVars>>

\* insert into event_admins of a table without its primary key
AdminAddInsert_NoKey(p) ==
  /\ pc[p] = "aa_insert"
  /\ LET admin == AdminRow(req[p].eventId, req[p].body.did[1],
                           req[p].body.role, req[p].did)
     IN  /\ eventAdmins' = eventAdmins \cup {admin}
         /\ Return(p, [status |-> 201, error |-> "", admin |-> admin])
  /\ UNCHANGED <<events, ticketTransfers, ticketTypes, tickets, ticketQueue,
                 sessions, now, nextRand, obsVars>>

\* insert into event_admins; a duplicate primary key makes the insert throw
AdminAddInsert(p) ==
  /\ pc[p] = "aa_insert"
  /\ IF SelectAdmin(req[p].eventId, req[p].body.did[1]) # {}
       THEN /\ eventAdmins' = eventAdmins
            /\ Return(p, [status |-> 500, error |-> "Failed to add admin"])
       ELSE LET admin == AdminRow(req[p].eventId, req[p].body.did[1],
                                  req[p].body.role, req[p].did)
            IN  /\ eventAdmins' = eventAdmins \cup {admin}
                /\ Return(p, [status |-> 201, error |-> "", admin |-> admin])
  /\ UNCHANGED <<events, ticketTransfers, ticketTypes, tickets, ticketQueue,
                 sessions, now, nextRand, obsVars>>

AdminRemoveBegin(p, limit) ==
  /\ \E caller \in Dids, eventId \in EventIds, did \in AdminDidInputs :
       Begin(p, [op |-> "adminRemove", did |-> caller, eventId |-> eventId,
                 target |-> did],
             "ar_event", limit)
  /\ UNCHANGED <<dbVars, now, nextRand, maxAssigned, scen>>

\* the check of the parameter and the select of the event, without the rule
AdminRemoveSelectEvent_Open(p) ==
  /\ pc[p] = "ar_event"
  /\ IF req[p].target = Undefined
       THEN Return(p, [status |-> 400, error |-> "did is required"])
     ELSE IF SelectEvent(req[p].eventId) = {}
       THEN Return(p, [status |-> 404, error |-> "Event not found"])
     ELSE Goto(p, "ar_delete", loc[p])
  /\ UNCHANGED <<dbVars, now, nextRand, obsVars>>

\* the check of the parameter, the select of the event, and the rule: the
\* creator removes anyone, an admin removes itself
AdminRemoveSelectEvent(p) ==
  /\ pc[p] = "ar_event"
  /\ IF req[p].target = Undefined
       THEN Return(p, [status |-> 400, error |-> "did is required"])
       ELSE LET found == SelectEvent(req[p].eventId)
            IN  IF found = {}
                  THEN Return(p, [status |-> 404, error |-> "Event not found"])
                  ELSE \E event \in found :
                         IF /\ event.creatorDid # req[p].did
                            /\ req[p].target[1] # req[p].did
                           THEN Return(p, [status |-> 403,
                                           error |-> "Not authorized"])
                           ELSE Goto(p, "ar_delete", loc[p])
  /\ UNCHANGED <<dbVars, now, nextRand, obsVars>>

\* delete from event_admins, returning the rows
AdminRemoveDelete(p) ==
  /\ pc[p] = "ar_delete"
  /\ eventAdmins' = DeleteAdmin(req[p].eventId, req[p].target[1])
  /\ IF SelectAdmin(req[p].eventId, req[p].target[1]) = {}
       THEN Return(p, [status |-> 404, error |-> "Admin not found"])
       ELSE Return(p, [status |-> 200, error |-> "", message |-> "Admin removed"])
  /\ UNCHANGED <<events, ticketTransfers, ticketTypes, tickets, ticketQueue,
                 sessions, now, nextRand, obsVars>>

(***************************************************************************)
(* Every operation on the inventory, the wait-list, the tiers and the      *)
(* admins, one request after the other.                                    *)
(***************************************************************************)
BeginAny(p) ==
  /\ Quiet
  /\ \/ HoldBegin(p, MaxFrameStarted) \/ ReleaseBegin(p, MaxFrameStarted)
     \/ CheckoutBegin(p, MaxFrameStarted) \/ DeliveryBegin(p, MaxFrameStarted)
     \/ PositionBegin(p, MaxFrameStarted) \/ JoinBegin(p, MaxFrameStarted)
     \/ LeaveBegin(p, MaxFrameStarted)
     \/ TierUpdateBegin(p, MaxFrameStarted) \/ TierCreateBegin(p, MaxFrameStarted)
     \/ AdminAddBegin(p, MaxFrameStarted) \/ AdminRemoveBegin(p, MaxFrameStarted)

NextFrame ==
  \/ \E p \in Procs :
       \/ BeginAny(p)
       \/ HoldSelectTier(p) \/ HoldCheckExisting(p) \/ HoldReleaseExpired(p)
       \/ HoldCountHolds(p) \/ HoldInsert(p)
       \/ ReleaseFind(p) \/ ReleaseDelete(p)
       \/ CheckoutSelect(p) \/ CheckoutPay(p)
       \/ WebhookSelect(p) \/ WebhookRegister(p) \/ WebhookInsert(p)
       \/ WebhookAddSold(p)
       \/ PositionSelectEntry(p) \/ PositionCountAhead(p)
       \/ JoinSelectTier(p) \/ JoinCheckExisting(p) \/ JoinSelectMax(p)
       \/ JoinInsert(p) \/ LeaveDelete(p)
       \/ TierUpdateSelectEvent(p) \/ TierUpdateSelectAdmin(p)
       \/ TierUpdateSelectTier(p) \/ TierUpdateWrite(p)
       \/ TierCreateSelectEvent(p) \/ TierCreateSelectAdmin(p)
       \/ TierCreateInsert(p)
       \/ AdminAddSelectEvent(p) \/ AdminAddSelectAdmin(p)
       \/ AdminAddCheckExisting(p) \/ AdminAddInsert(p)
       \/ AdminRemoveSelectEvent(p) \/ AdminRemoveDelete(p)
  \/ Tick

SpecFrame == Init /\ [][NextFrame]_vars

(***************************************************************************)
(* Grants and revocations of admin rights, any interleaving.               *)
(***************************************************************************)
NextAdmin ==
  \E p \in Procs :
    \/ AdminAddBegin(p, MaxAdminStarted) \/ AdminAddSelectEvent(p)
    \/ AdminAddSelectAdmin(p) \/ AdminAddCheckExisting(p)
    \/ AdminAddInsert(p)
    \/ AdminRemoveBegin(p, MaxAdminStarted) \/ AdminRemoveSelectEvent(p)
    \/ AdminRemoveDelete(p)

SpecAdmin == Init /\ [][NextAdmin]_vars

(***************************************************************************)
(* Grants, revocations and the operations they authorize (creation and     *)
(* update of a tier, update of an event), one request after the other.     *)
(***************************************************************************)
AdminAddBeginSeq(p) == Quiet /\ AdminAddBegin(p, MaxAdminSeqStarted)

AdminRemoveBeginSeq(p) == Quiet /\ AdminRemoveBegin(p, MaxAdminSeqStarted)

TierCreateBeginSeq(p) == Quiet /\ TierCreateBegin(p, MaxAdminSeqStarted)

TierUpdateBeginAdmin(p) == Quiet /\ TierUpdateBegin(p, MaxAdminSeqStarted)

EventUpdateBeginSeq(p) == Quiet /\ EventUpdateBegin(p, MaxAdminSeqStarted)

NextAdminSeq ==
  \E p \in Procs :
    \/ AdminAddBeginSeq(p) \/ AdminAddSelectEvent(p)
    \/ AdminAddSelectAdmin(p) \/ AdminAddCheckExisting(p)
    \/ AdminAddInsert(p)
    \/ AdminRemoveBeginSeq(p) \/ AdminRemoveSelectEvent(p)
    \/ AdminRemoveDelete(p)
    \/ TierCreateBeginSeq(p) \/ TierCreateSelectEvent(p)
    \/ TierCreateSelectAdmin(p) \/ TierCreateInsert(p)
    \/ TierUpdateBeginAdmin(p) \/ TierUpdateSelectEvent(p)
    \/ TierUpdateSelectAdmin(p) \/ TierUpdateSelectTier(p)
    \/ TierUpdateWrite(p)
    \/ EventUpdateBeginSeq(p) \/ EventUpdateSelect(p)
    \/ EventUpdateSelectAdmin(p) \/ EventUpdateWrite(p)

SpecAdminSeq == Init /\ [][NextAdminSeq]_vars

(***************************************************************************)
(* Properties.                                                             *)
(***************************************************************************)

\* the holds of a tier that have not expired
ActiveHolds(t) ==
  { k \in tickets : /\ k.ticketTypeId = t
                    /\ k.status = "held"
                    /\ k.heldUntil # Null
                    /\ k.heldUntil[1] >= now }

\* C1: no oversell.  For every tier with a non-null capacity, sold plus the
\* number of unexpired holds is at most the capacity, in every state.
C1_NoOversell ==
  \A t \in TierIds :
    ticketTypes[t].quantity # Null =>
      ticketTypes[t].sold + Cardinality(ActiveHolds(t)) <= ticketTypes[t].quantity[1]

HoldRequest(p, did, ticketTypeId) ==
  /\ req[p].op = "hold"
  /\ req[p].did = did
  /\ req[p].ticketTypeId = ticketTypeId
  /\ req[p].eventId = ticketTypes[ticketTypeId].eventId
  /\ req[p].holdHours = DEFAULT_HOLD_HOURS

\* C2: scenario A.  The only two requests ever made are the overlapping
\* createHold of X and of Y on t1 (capacity 1, nothing sold, nothing held);
\* when both have returned, one was created (201), the other was refused
\* with 409 'No tickets available', and t1 has one hold.
C2_ScenarioA ==
  ( /\ started = 2
    /\ pc[1] = "done" /\ pc[2] = "done"
    /\ \/ HoldRequest(1, "X", "t1") /\ HoldRequest(2, "Y", "t1")
       \/ HoldRequest(1, "Y", "t1") /\ HoldRequest(2, "X", "t1") )
  => /\ \E p \in {1, 2} :
          /\ resp[p].status = 201
          /\ resp[3 - p].status = 409
          /\ resp[3 - p].error = "No tickets available"
     /\ Cardinality(HoldsOfTier("t1")) = 1

RECURSIVE SumQuantity(_)
SumQuantity(S) ==
  IF S = {} THEN 0
  ELSE LET s == CHOOSE x \in S : TRUE
       IN  OrElse(ParseInt(s.metadata.quantity), 1) + SumQuantity(S \ {s})

\* C3: idempotent mint.  However often the confirmation of a payment is
\* delivered, the tickets carrying its payment reference are at most the
\* payment's quantity, and the tier's sold counter counts every payment of
\* the tier at most once.
C3_IdempotentMint ==
  /\ \A s \in sessions :
       Cardinality({ k \in tickets : k.paymentId = s.id })
         <= OrElse(ParseInt(s.metadata.quantity), 1)
  /\ \A t \in TierIds :
       ticketTypes[t].sold
         <= SumQuantity({ s \in sessions : s.metadata.ticketTypeId = t })

\* C4: mint atomicity.  In every state a tier's sold counter equals the
\* number of tickets minted for the tier.
C4_MintAtomic ==
  \A t \in TierIds :
    ticketTypes[t].sold =
      Cardinality({ k \in tickets : k.ticketTypeId = t /\ k.status = "valid" })

\* C5: one active hold per identity, sequential.  When the createHold of
\* identity I on tier T looks for I's hold and I has an unexpired hold on T,
\* the request returns 409 'already have a hold' carrying a hold of I on T,
\* and neither the tickets nor the tiers change.
C5_AlreadyHeld ==
  [][ \A p \in Procs :
        ( /\ pc[p] = "hold_existing"
          /\ pc'[p] # pc[p]
          /\ \E k \in ActiveHolds(req[p].ticketTypeId) : k.heldBy = req[p].did )
        => /\ pc'[p] = "done"
           /\ resp'[p].status = 409
           /\ resp'[p].error = "You already have a hold for this ticket type"
           /\ resp'[p].ticket \in ActiveHolds(req[p].ticketTypeId)
           /\ resp'[p].ticket.heldBy = req[p].did
           /\ tickets' = tickets
           /\ ticketTypes' = ticketTypes ]_vars

\* C5 witness: a createHold was refused with the caller's unexpired hold
C5_Witness ==
  \E p \in Procs :
    /\ pc[p] = "done"
    /\ req[p].op = "hold"
    /\ resp[p].status = 409
    /\ resp[p].error = "You already have a hold for this ticket type"
    /\ resp[p].ticket \in ActiveHolds(req[p].ticketTypeId)
    /\ resp[p].ticket.heldBy = req[p].did
    /\ Cardinality(tickets) = 1

\* C6: at most one hold per (tier, identity).  No two tickets in status
\* 'held' have the same heldBy and ticketTypeId.
C6_OneHoldPerIdentity ==
  \A k1, k2 \in tickets :
    ( /\ k1.status = "held" /\ k2.status = "held"
      /\ k1.heldBy = k2.heldBy
      /\ k1.ticketTypeId = k2.ticketTypeId )
    => k1 = k2

\* C7: monotonic queue position under concurrent joins.  The positions
\* assigned on one tier are pairwise distinct, and a join's position is
\* larger than the position of every entry already on the tier.
C7_DistinctPositions ==
  /\ \A e1, e2 \in ticketQueue :
       (e1.ticketTypeId = e2.ticketTypeId /\ e1.position = e2.position)
         => e1 = e2
  /\ \A p \in Procs :
       (pc[p] = "done" /\ req[p].op = "join" /\ resp[p].status = 201)
         => \A e \in ticketQueue :
              ( /\ e.ticketTypeId = req[p].ticketTypeId
                /\ e.id[2] < resp[p].entry.id[2] )
              => e.position < resp[p].position

\* C8: queue positions are never reused.  A join is assigned a position
\* larger than every position assigned on the tier before, entries that
\* have left included.
C8_NeverReused ==
  \A p \in Procs :
    (pc[p] = "done" /\ req[p].op = "join" /\ resp[p].status = 201)
      => resp[p].position > resp[p].maxBefore

\* the position query of `did` on t1, issued and answered at stage k of the
\* scenario, reports position n
Reports(p, k, did, n) ==
  ( /\ pc[p] = "done"
    /\ req[p].op = "position"
    /\ req[p].ticketTypeId = "t1"
    /\ req[p].did = did
    /\ req[p].stage = Some(k)
    /\ scen = Some(k) )
  => (resp[p].inQueue /\ resp[p].position = n)

\* C9: scenario D.  After X, Y, Z joined t1 in that order the position
\* queries report 1, 2, 3; after Y has left, X's query reports 1 and Z's
\* query reports 3.
C9_ScenarioD ==
  \A p \in Procs :
    /\ Reports(p, 3, "X", 1) /\ Reports(p, 3, "Y", 2) /\ Reports(p, 3, "Z", 3)
    /\ Reports(p, 4, "X", 1) /\ Reports(p, 4, "Z", 3)

\* C10: queue position reporting.  A position query that finds no waiting
\* entry of the identity on the tier answers "not in queue"; one that finds
\* the entry e answers inQueue with totalAhead the number of waiting entries
\* of the tier whose position is smaller than e.position.
C10_AheadCount ==
  [][ \A p \in Procs :
        /\ (pc[p] = "qget_entry" /\ pc'[p] # pc[p])
           => LET mine == { e \in ticketQueue :
                              /\ e.ticketTypeId = req[p].ticketTypeId
                              /\ e.did = req[p].did
                              /\ e.status = "waiting" }
              IN  IF mine = {}
                    THEN pc'[p] = "done" /\ resp'[p].inQueue = FALSE
                    ELSE pc'[p] = "qget_ahead" /\ loc'[p].entry \in mine
        /\ (pc[p] = "qget_ahead" /\ pc'[p] # pc[p])
           => /\ pc'[p] = "done"
              /\ resp'[p].inQueue = TRUE
              /\ resp'[p].totalAhead =
                   Cardinality({ e \in ticketQueue :
                                   /\ e.ticketTypeId = req[p].ticketTypeId
                                   /\ e.status = "waiting"
                                   /\ e.position < loc[p].entry.position }) ]_vars

\* C10 witness: a query answered inQueue with one waiting entry of the tier
\* ahead of the caller
C10_Witness ==
  \E p \in Procs :
    /\ pc[p] = "done"
    /\ req[p].op = "position"
    /\ resp[p].inQueue
    /\ resp[p].totalAhead = 1
    /\ \E e \in ticketQueue :
         e.ticketTypeId = req[p].ticketTypeId /\ e.position < resp[p].entry.position

\* C11: expired holds never block capacity.  When a createHold on a capped
\* tier counts the tier's holds for its capacity decision, no hold that had
\* expired (heldUntil in the past) already when the request was issued, and
\* so has expired at the time of the decision, is among the holds it counts.
C11_ExpiredNeverCounted ==
  [][ \A p \in Procs :
        ( /\ pc[p] = "hold_count"
          /\ pc'[p] # pc[p]
          /\ Truthy(loc[p].ticketType.quantity) )
        => \A k \in tickets :
             (k.ticketTypeId = req[p].ticketTypeId /\ k.status = "held")
               => ~(k.heldUntil # Null /\ k.heldUntil[1] < req[p].at) ]_vars

\* C12: AlreadyHeld only while the caller's hold is active.  A createHold
\* that was refused with 409 'already have a hold' carries a hold of the
\* caller that had not expired when the request was issued.
C12_AlreadyHeldOnlyActive ==
  \A p \in Procs :
    ( /\ pc[p] = "done"
      /\ req[p].op = "hold"
      /\ resp[p].status = 409
      /\ resp[p].error = "You already have a hold for this ticket type" )
    => /\ resp[p].ticket.heldUntil # Null
       /\ resp[p].ticket.heldUntil[1] >= req[p].at

\* C13: releaseHold.  When the DELETE looks the ticket up and it is a 'held'
\* row whose heldBy is the caller, the request goes on to delete it: the row
\* is gone afterwards, the tier has one hold less if the row was still held,
\* no other row changes and the answer is 200.  Otherwise (unknown ticket,
\* not held, held by someone else) the answer is 404 and no row changes.
C13_ReleaseHold ==
  [][ \A p \in Procs :
        /\ (pc[p] = "rel_find" /\ pc'[p] # pc[p])
           => /\ tickets' = tickets
              /\ IF \E k \in tickets : /\ k.id = req[p].ticketId
                                       /\ k.status = "held"
                                       /\ k.heldBy = req[p].did
                   THEN pc'[p] = "rel_delete"
                   ELSE pc'[p] = "done" /\ resp'[p].status = 404
        /\ (pc[p] = "rel_delete" /\ pc'[p] # pc[p])
           => /\ pc'[p] = "done"
              /\ resp'[p].status = 200
              /\ tickets' = { k \in tickets : k.id # req[p].ticketId }
              /\ \A k \in tickets :
                   (k.id = req[p].ticketId /\ k.status = "held")
                     => Cardinality(HoldsOfTier(k.ticketTypeId)')
                          = Cardinality(HoldsOfTier(k.ticketTypeId)) - 1
              /\ ticketTypes' = ticketTypes ]_vars

\* C13 witness: a hold was released by its holder while another hold stands
C13_Witness ==
  \E p \in Procs :
    /\ pc[p] = "done" /\ req[p].op = "release" /\ resp[p].status = 200
    /\ ~\E k \in tickets : k.id = req[p].ticketId
    /\ \E k \in tickets : k.status = "held"

\* C14: unbounded tiers always succeed.  A createHold on a tier whose
\* quantity is null that reaches the capacity decision (the caller has no
\* hold on the tier) is not refused with 'No tickets available': it goes on
\* to insert its hold and answers 201, whatever the sold count and the
\* number of holds of the tier.
C14_UnboundedSucceeds ==
  [][ \A p \in Procs :
        ( /\ req[p].op = "hold"
          /\ pc'[p] # pc[p]
          /\ req[p].ticketTypeId \in DOMAIN ticketTypes
          /\ ticketTypes[req[p].ticketTypeId].quantity = Null )
        => /\ pc[p] = "hold_count" => pc'[p] = "hold_insert"
           /\ pc[p] = "hold_insert"
                => /\ pc'[p] = "done"
                   /\ resp'[p].status = 201
                   /\ resp'[p].ticket \in tickets' \ tickets ]_vars

\* C14 witness: a hold was created on the unbounded tier after tickets of
\* the tier were sold
C14_Witness ==
  \E p \in Procs :
    /\ pc[p] = "done" /\ req[p].op = "hold" /\ resp[p].status = 201
    /\ ticketTypes[req[p].ticketTypeId].quantity = Null
    /\ ticketTypes[req[p].ticketTypeId].sold > 0
    /\ resp[p].ticket \in tickets

\* C15: commitSale converts a held unit into a sold unit.  A step that
\* increments the sold counter of a tier on which holds stand (whichever of
\* the holders the buyer is) consumes a hold in the same step: the tier's
\* 'held' rows are fewer afterwards, and sold plus the number of unexpired
\* holds has not grown.
C15_HoldConverted ==
  [][ \A t \in DOMAIN ticketTypes :
        ( /\ ticketTypes'[t].sold > ticketTypes[t].sold
          /\ ActiveHolds(t) # {} )
        => /\ Cardinality(HoldsOfTier(t)') < Cardinality(HoldsOfTier(t))
           /\ ticketTypes'[t].sold + Cardinality(ActiveHolds(t)')
                <= ticketTypes[t].sold + Cardinality(ActiveHolds(t)) ]_vars

\* C16: sold is monotonically non-decreasing.  No step of any operation
\* makes a tier's sold counter smaller than it was.
C16_SoldMonotonic ==
  [][ \A t \in DOMAIN ticketTypes :
        ticketTypes'[t].sold >= ticketTypes[t].sold ]_vars

\* a body field breaks the append-only rules against the stored tier
BreaksRules(tier, body) ==
  \/ body.price # Undefined /\ body.price[1] > tier.price
  \/ /\ body.quantity # Undefined
     /\ body.quantity[1] # Null
     /\ body.quantity[1][1] < tier.sold
  \/ /\ body.perks # Undefined
     /\ \E i \in 1..Len(tier.perks) :
          \A j \in 1..Len(body.perks[1]) : body.perks[1][j] # tier.perks[i]

\* C17: tier update is all-or-nothing.  When an update request is validated
\* against its tier and one of its fields breaks the append-only rules
\* (price above the current one, quantity below sold, a current perk
\* missing), the request ends there with 400 and the tiers are unchanged,
\* the valid fields of the request included; and no step of an update
\* request other than its final write changes a tier.
C17_AllOrNothing ==
  [][ \A p \in Procs :
        (req[p].op = "tierUpdate" /\ pc'[p] # pc[p])
        => /\ pc[p] # "tu_write" => ticketTypes' = ticketTypes
           /\ ( /\ pc[p] = "tu_select"
                /\ ticketTypes[req[p].tierId[1]].eventId = req[p].eventId
                /\ BreaksRules(ticketTypes[req[p].tierId[1]], req[p].body) )
              => /\ pc'[p] = "done"
                 /\ resp'[p].status = 400
                 /\ resp'[p].error = "Append-only policy violation" ]_vars

\* C17 witness: an update that names a new description with a quantity
\* below sold was refused, and the tier keeps its description
C17_Witness ==
  \E p \in Procs :
    /\ pc[p] = "done" /\ req[p].op = "tierUpdate" /\ resp[p].status = 400
    /\ resp[p].error = "Append-only policy violation"
    /\ resp[p].violations = <<"quantity">>
    /\ req[p].body.description # Undefined
    /\ ticketTypes[req[p].tierId[1]].description # req[p].body.description[1]

\* C18: append-only tier fields over time.  No step increases a tier's
\* price, and every perk of a tier is still in the tier's perk list after
\* the step, so a perk that was ever in the list remains in it.
C18_AppendOnly ==
  [][ \A t \in DOMAIN ticketTypes :
        /\ ticketTypes'[t].price <= ticketTypes[t].price
        /\ Range(ticketTypes[t].perks) \subseteq Range(ticketTypes'[t].perks) ]_vars

\* C19: tier quantity never drops below sold.  Whenever a tier update
\* writes a non-null quantity, the quantity is at least the tier's sold
\* counter at the moment of the write.
C19_QuantityAtLeastSold ==
  [][ \A p \in Procs :
        ( /\ pc[p] = "tu_write"
          /\ pc'[p] # pc[p]
          /\ loc[p].updates.quantity # Undefined
          /\ loc[p].updates.quantity[1] # Null )
        => ticketTypes'[req[p].tierId[1]].quantity[1]
             >= ticketTypes'[req[p].tierId[1]].sold ]_vars

C21_HoldIsNotTicket ==
  \A k \in tickets :
    /\ k.status = "held"
         => /\ k.heldBy # NULL /\ k.heldUntil # Null
            /\ k.ownerDid = Null /\ k.originalOwnerDid = Null
            /\ k.signature = Null
    /\ k.status = "valid"
         => /\ k.ownerDid # Null /\ k.originalOwnerDid # Null
            /\ k.signature # Null
            /\ k.heldBy = NULL /\ k.heldUntil = Null

\* C21 witness: a hold and an issued ticket of the same tier stand together
C21_Witness ==
  \E h, k \in tickets :
    /\ h.status = "held" /\ k.status = "valid"
    /\ h.ticketTypeId = k.ticketTypeId

\* the `to` of the most recent Transfer record of a ticket, or the ticket's
\* originalOwnerDid when no record names the ticket
DerivedOwner(k) ==
  LET idx == { i \in 1..Len(ticketTransfers) : ticketTransfers[i].ticketId = k.id }
  IN  IF idx = {}
        THEN k.originalOwnerDid
        ELSE ticketTransfers[CHOOSE i \in idx : \A j \in idx : j <= i].toDid

C23_OwnerConsent ==
  [][ \A p \in Procs :
        (pc[p] = "xfer" /\ pc'[p] # pc[p])
        => \A k \in tickets :
             k.id = req[p].ticketId
             => /\ ( \/ req[p].fromIdentity # DerivedOwner(k)
                     \/ req[p].signature.signer # DerivedOwner(k) )
                   => /\ pc'[p] = "done"
                      /\ resp'[p].error \in {"NotOwner", "InvalidSignature"}
                      /\ ticketTransfers' = ticketTransfers
                      /\ tickets' = tickets
                /\ ( /\ Len(TransfersOfTicket(k.id)) > 0
                     /\ LET last == TransfersOfTicket(k.id)[Len(TransfersOfTicket(k.id))]
                        IN  /\ last.fromDid = req[p].fromIdentity
                            /\ last.toDid # req[p].fromIdentity
                     /\ req[p].signature.signer = req[p].fromIdentity )
                   => resp'[p].error = "NotOwner" ]_vars

\* C23 witness: a ticket went from A to B, and a further transfer from A,
\* signed by A, was rejected with NotOwner
C23_Witness ==
  \E p \in Procs :
    /\ pc[p] = "done" /\ req[p].op = "transfer"
    /\ resp[p].error = "NotOwner"
    /\ req[p].signature.signer = req[p].fromIdentity
    /\ \E i \in 1..Len(ticketTransfers) :
         /\ ticketTransfers[i].ticketId = req[p].ticketId
         /\ ticketTransfers[i].fromDid = req[p].fromIdentity
         /\ ticketTransfers[i].toDid # req[p].fromIdentity

EventStatuses == {"draft", "published", "cancelled", "completed"}

\* C24: event lifecycle state.  In every state every event's status is one
\* of draft, published, cancelled, completed; and an event is in draft in
\* the state in which it first exists.
C24_EventLifecycle ==
  [][ /\ \A e \in events' : e.status \in EventStatuses
      /\ \A e \in events' :
           (~\E f \in events : f.id = e.id) => e.status = "draft" ]_vars

\* C25: AlreadyQueued.  A join that looks for the caller's entry while the
\* caller has a waiting entry on the tier is rejected with 409, reports the
\* position of such an entry and leaves the queue unchanged; and after
\* every step there is at most one waiting entry per (tier, identity).
C25_AlreadyQueued ==
  [][ /\ \A p \in Procs :
           ( /\ pc[p] = "qjoin_existing"
             /\ pc'[p] # pc[p]
             /\ WaitingOfIdentity(req[p].ticketTypeId, req[p].did) # {} )
           => /\ pc'[p] = "done"
              /\ resp'[p].status = 409
              /\ \E e \in WaitingOfIdentity(req[p].ticketTypeId, req[p].did) :
                   resp'[p].position = e.position
              /\ ticketQueue' = ticketQueue
      /\ \A e1, e2 \in ticketQueue' :
           ( /\ e1.status = "waiting" /\ e2.status = "waiting"
             /\ e1.ticketTypeId = e2.ticketTypeId
             /\ e1.did = e2.did )
           => e1 = e2 ]_vars

\* C26: leave.  The DELETE of identity I on tier T answers 200 when I has
\* a waiting entry on T and 404 when it has none; afterwards I has no
\* waiting entry on T, no entry was added, and every entry of another
\* identity or another tier is still in the queue exactly as it was, its
\* stored position included.
C26_Leave ==
  [][ \A p \in Procs :
        (pc[p] = "qleave" /\ pc'[p] # pc[p])
        => LET mine == { e \in ticketQueue : /\ e.ticketTypeId = req[p].ticketTypeId
                                             /\ e.did = req[p].did
                                             /\ e.status = "waiting" }
           IN  /\ pc'[p] = "done"
               /\ resp'[p].status = IF mine = {} THEN 404 ELSE 200
               /\ ticketQueue' \subseteq ticketQueue
               /\ \A e \in ticketQueue : e \in ticketQueue' <=> e \notin mine
               /\ mine = {} => ticketQueue' = ticketQueue ]_vars

\* C26 witness: an identity left a tier on which a later entry of another
\* identity stays with its position
C26_Witness ==
  \E p \in Procs :
    /\ pc[p] = "done" /\ req[p].op = "leave" /\ resp[p].status = 200
    /\ \E e \in ticketQueue :
         /\ e.ticketTypeId = req[p].ticketTypeId
         /\ e.did # req[p].did
         /\ e.position = 2

\* a callback that must change nothing: sent without the shared secret, of
\* type payment.failed, or a checkout.completed naming an event or a tier
\* of which there is no row
Irrelevant(r) ==
  \/ r.authorization # <<"Bearer", "dev-secret">>
  \/ r.type = "payment.failed"
  \/ /\ r.type = "checkout.completed"
     /\ \/ ~\E e \in events : e.id = r.metadata.eventId
        \/ ~\E t \in DOMAIN ticketTypes : ticketTypes[t].id = r.metadata.ticketTypeId

\* C27: failed or irrelevant payment callbacks change nothing.  No step of
\* such a callback adds, removes or changes a ticket row or changes a
\* tier's sold counter, and the callback never answers 200 for a mint.
C27_IrrelevantCallback ==
  [][ \A p \in Procs :
        ( /\ req[p].op = "webhook"
          /\ pc[p] \notin {"idle", "done"}
          /\ pc'[p] # pc[p]
          /\ Irrelevant(req[p]) )
        => /\ tickets' = tickets
           /\ \A t \in DOMAIN ticketTypes :
                ticketTypes'[t].sold = ticketTypes[t].sold
           /\ pc'[p] \notin {"wh_register", "wh_insert", "wh_sold"} ]_vars

\* C27 witness: after a ticket was minted, a callback for the same tier
\* sent without the secret was answered 401, and the tier counts one sale
C27_Witness ==
  \E p \in Procs :
    /\ pc[p] = "done" /\ req[p].op = "webhook" /\ resp[p].status = 401
    /\ req[p].type = "checkout.completed"
    /\ req[p].metadata.ticketTypeId \in DOMAIN ticketTypes
    /\ ticketTypes[req[p].metadata.ticketTypeId].sold = 1
    /\ Cardinality(tickets) = 1

\* the request of slot p takes a step
Stepper(p) == pc'[p] # pc[p]

\* the step changes the sold counter of a tier
SoldChanged ==
  \E t \in DOMAIN ticketTypes : ticketTypes'[t].sold # ticketTypes[t].sold

\* the step creates, changes or deletes a 'held' ticket row
HeldChanged ==
  { k \in tickets : k.status = "held" } # { k \in tickets' : k.status = "held" }

\* C28: capacity mutation is funnelled.  A step that changes a tier's sold
\* counter is a step of a payment confirmation; a step that creates,
\* changes or deletes a 'held' ticket row is a step of createHold or
\* releaseHold; the steps of queue join/leave/position, checkout, tier
\* create/update and admin add/remove leave sold and all ticket rows
\* unchanged; and the steps of queue operations change no entry's status.
C28_Funnelled ==
  [][ /\ SoldChanged => \E p \in Procs : Stepper(p) /\ req'[p].op = "webhook"
      /\ HeldChanged
           => \E p \in Procs : Stepper(p) /\ req'[p].op \in {"hold", "release"}
      /\ \A p \in Procs :
           ( /\ Stepper(p)
             /\ req'[p].op \in {"join", "leave", "position", "checkout",
                                "tierCreate", "tierUpdate", "adminAdd",
                                "adminRemove"} )
           => /\ tickets' = tickets
              /\ ~SoldChanged
      /\ \A p \in Procs :
           (Stepper(p) /\ req'[p].op \in {"join", "leave", "position"})
           => \A e \in ticketQueue, f \in ticketQueue' :
                e.id = f.id => f.status = e.status ]_vars

\* C28 witness: a tier update was written to a tier with a sale, and the
\* sale is still counted
C28_Witness ==
  \E p \in Procs :
    /\ pc[p] = "done" /\ req[p].op = "tierUpdate" /\ resp[p].status = 200
    /\ resp[p].message = ""
    /\ ticketTypes[req[p].tierId[1]].sold > 0
    /\ \E k \in tickets : k.ticketTypeId = req[p].tierId[1] /\ k.status = "valid"

\* C29: lowering a tier's capacity respects reservations.  When a tier
\* update writes a non-null quantity, the tier's sold counter plus the
\* number of its unexpired holds is at most the quantity written.
C29_CapacityRespectsHolds ==
  [][ \A p \in Procs :
        ( /\ pc[p] = "tu_write"
          /\ Stepper(p)
          /\ loc[p].updates.quantity # Undefined
          /\ loc[p].updates.quantity[1] # Null )
        => LET t == req[p].tierId[1]
           IN  ticketTypes'[t].sold + Cardinality(ActiveHolds(t))
                 <= ticketTypes'[t].quantity[1] ]_vars

\* C30: checkout availability check.  When a checkout for q units reads an
\* existing tier of its event whose quantity is not null and q exceeds
\* quantity minus sold, the request ends there with 400 and no session is
\* requested from the pay service; when the tier's quantity is null the
\* request goes on to the pay service; and the answer to the pay service's
\* reply is never a capacity rejection.
C30_CheckoutAvailability ==
  [][ \A p \in Procs :
        /\ ( /\ pc[p] = "co_select"
             /\ Stepper(p)
             /\ \E e \in events : e.id = req[p].eventId
             /\ req[p].ticketTypeId \in DOMAIN ticketTypes
             /\ ticketTypes[req[p].ticketTypeId].eventId = req[p].eventId )
           => LET tier == ticketTypes[req[p].ticketTypeId]
              IN  /\ sessions' = sessions
                  /\ ( /\ tier.quantity # Null
                       /\ req[p].quantity > tier.quantity[1] - tier.sold )
                     => /\ pc'[p] = "done"
                        /\ resp'[p].status = 400
                  /\ tier.quantity = Null => pc'[p] = "co_pay"
        /\ (pc[p] = "co_pay" /\ Stepper(p))
           => /\ pc'[p] = "done"
              /\ resp'[p].status \in {200, 500} ]_vars

\* C30 witness: a checkout for one unit of a sold-out tier was rejected
C30_Witness ==
  \E p \in Procs :
    /\ pc[p] = "done" /\ req[p].op = "checkout" /\ resp[p].status = 400
    /\ req[p].quantity = 1
    /\ ticketTypes[req[p].ticketTypeId].quantity = Some(1)
    /\ ticketTypes[req[p].ticketTypeId].sold = 1

\* did is the creator of the event / has an entry in its admin set
IsCreator(eventId, did) == did \in SelectCreatorDid(eventId)
IsAdmin(eventId, did) == SelectAdmin(eventId, did) # {}

C32_AdminSet ==
  /\ \A a \in eventAdmins :
       /\ ~IsCreator(a.eventId, a.did)
       /\ a.addedBy # a.did
  /\ \A a, b \in eventAdmins :
       (a.eventId = b.eventId /\ a.did = b.did) => a = b

\* C32 witness: two overlapping requests added the same did to the same
\* event with different roles; one was answered 201 and the other 500
C32_Witness ==
  \E p, q \in Procs :
    /\ pc[p] = "done" /\ req[p].op = "adminAdd" /\ resp[p].status = 201
    /\ pc[q] = "done" /\ req[q].op = "adminAdd" /\ resp[q].status = 500
    /\ req[p].eventId = req[q].eventId
    /\ req[p].body.did = req[q].body.did
    /\ req[p].body.role # req[q].body.role

\* C33: revoking admin rights.  A remove request for did D on an existing
\* event is answered 403 when the caller is neither the creator nor D;
\* otherwise 404 when D has no admin entry, and 200 with exactly D's entry
\* deleted when it has one.  The 400, 403 and 404 answers, and every step
\* before the answer, leave the admin set unchanged.
C33_Revoke ==
  [][ \A p \in Procs :
        (Stepper(p) /\ req'[p].op = "adminRemove")
        => IF pc'[p] # "done" \/ req'[p].target = Undefined
             THEN /\ eventAdmins' = eventAdmins
                  /\ pc'[p] = "done" => resp'[p].status = 400
             ELSE LET eventId == req'[p].eventId
                      caller == req'[p].did
                      target == req'[p].target[1]
                      entry == SelectAdmin(eventId, target)
                  IN  IF SelectEvent(eventId) = {}
                        THEN resp'[p].status = 404 /\ eventAdmins' = eventAdmins
                      ELSE IF ~IsCreator(eventId, caller) /\ target # caller
                        THEN resp'[p].status = 403 /\ eventAdmins' = eventAdmins
                      ELSE IF entry = {}
                        THEN resp'[p].status = 404 /\ eventAdmins' = eventAdmins
                      ELSE /\ resp'[p].status = 200
                           /\ eventAdmins' = eventAdmins \ entry ]_vars

\* C33 witness: Y, an admin of e1 that is not its creator, removed its own
\* entry
C33_Witness ==
  \E p \in Procs :
    /\ pc[p] = "done" /\ req[p].op = "adminRemove" /\ resp[p].status = 200
    /\ req[p].did = "Y" /\ req[p].eventId = "e1" /\ req[p].target = Given("Y")
    /\ SelectAdmin("e1", "Y") = {}

C35_HoldExpiry ==
  [][ \A p \in Procs :
        /\ (pc[p] = "hold_count" /\ pc'[p] = "hold_insert")
           => LET h == IF req[p].body.holdHours = Undefined
                         THEN 72 ELSE req[p].body.holdHours[1]
              IN  /\ loc'[p].holdUntil = now + h
                  /\ loc'[p].holdUntil > now
        /\ (pc[p] = "hold_insert" /\ Stepper(p))
           => \E k \in tickets' \ tickets :
                k.status = "held" /\ k.heldUntil = Some(loc[p].holdUntil) ]_vars

\* C36: a tier with capacity 0 admits no reservation.  A createHold that
\* reaches its capacity decision on a tier whose quantity is 0 is answered
\* 409 'No tickets available', and no step adds a 'held' ticket to a tier
\* whose quantity is 0.
C36_ZeroCapacity ==
  [][ /\ \A p \in Procs :
           ( /\ pc[p] = "hold_count" /\ Stepper(p)
             /\ ticketTypes[req[p].ticketTypeId].quantity = Some(0) )
           => /\ pc'[p] = "done"
              /\ resp'[p].status = 409
              /\ resp'[p].error = "No tickets available"
      /\ \A k \in tickets' \ tickets :
           k.status = "held" => ticketTypes[k.ticketTypeId].quantity # Some(0) ]_vars

\* C37: one payment, one owner.  While every payment is confirmed once, the
\* tickets that carry the same payment reference have the same ownerDid,
\* whatever the profile service answered for each unit.
C37_OnePaymentOneOwner ==
  \A k1, k2 \in tickets :
    (k1.status = "valid" /\ k2.status = "valid" /\ k1.paymentId = k2.paymentId)
    => k1.ownerDid = k2.ownerDid

\* C38: ticket ids never collide.  While every payment is confirmed once,
\* under any interleaving of the confirmations, the id a mint allocates for
\* a unit is the id of no existing ticket, its insert adds one ticket and
\* does not fail, and a mint of quantity q that reaches the update of sold
\* has created exactly q tickets carrying its payment reference.
C38_IdsNeverCollide ==
  [][ \A p \in Procs :
        /\ (pc[p] = "wh_insert" /\ Stepper(p))
           => /\ \A k \in tickets : k.id # loc[p].ticketId
              /\ Cardinality(tickets') = Cardinality(tickets) + 1
              /\ pc'[p] # "done"
        /\ (pc[p] = "wh_sold" /\ Stepper(p) /\ loc[p].quantity > 0)
           => Cardinality({ k \in tickets : k.paymentId = PaymentRef(req[p]) })
                = loc[p].quantity ]_vars

\* C39: tickets stay inside their event.  In every state the tier of every
\* ticket row, hold or issued ticket, is a tier of the event of that row.
C39_InsideEvent ==
  \A k \in tickets :
    /\ k.ticketTypeId \in DOMAIN ticketTypes
    /\ ticketTypes[k.ticketTypeId].eventId = k.eventId
====
